---- MODULE Spec2Model ----
(***************************************************************************)
(* A model of the openhands-aci file editor: the disk-backed FileCache     *)
(* (editor/file_cache.py), the FileHistoryManager built on it              *)
(* (editor/history.py) and the OHEditor command dispatcher                 *)
(* (editor/editor.py).                                                     *)
(*                                                                         *)
(* Text is a sequence of one-character strings, so that length, lines and  *)
(* occurrences are computed rather than assumed.  A cache key is such a    *)
(* text too: the history keys are built by concatenation, as the           *)
(* f-strings of history.py build them.                                     *)
(*                                                                         *)
(* Three specifications share the variables:                               *)
(*   CacheSpec  a FileCache used on its own, with or without a size limit  *)
(*   HistSpec   a FileHistoryManager used on its own                       *)
(*   Spec       an OHEditor working on a small file system                 *)
(***************************************************************************)
EXTENDS Integers, Sequences, FiniteSets, TLC

VARIABLES
    fs,                     \* the file system: path -> [kind, data]
    cache,                  \* the FileCache (its directory, current_size, size_limit)
    max_history_per_file,   \* FileHistoryManager.max_history_per_file
    result,                 \* what the last call returned or raised
    ncalls,                 \* how many commands the editor was given (bounds its runs)
    orig,                   \* history variable: path -> file state before its first edit
    adds,                   \* history variable: path -> every content passed to add_history
    pure,                   \* history variable: path -> no pop or clear happened yet
    searched,               \* history variable: old_str of the str_replace just called
    cwd,                    \* GeminiEditor._cwd, the workspace root, or None
    live,                   \* history variable: path -> the contents a stack with a cap would hold
    procs                   \* the calls in flight, where processes share a path or a store

vars == <<fs, cache, max_history_per_file, result, ncalls, orig, adds, pure, searched,
          cwd, live, procs>>

(***************************************************************************)
(* Bounds of the model.                                                    *)
(***************************************************************************)
\* add_history is called on a path while its counter is below this (HistSpec)
MaxCounter == 3
\* largest max_history_per_file a FileHistoryManager is constructed with in HistSpec
MaxCap == 2
\* commands given to the editor in a run of Spec
MaxCmds == 2
\* add_history calls begun by the processes that share a store (ShareSpec)
MaxAdds == 3

(***************************************************************************)
(* Text helpers.                                                           *)
(***************************************************************************)
None == [kind |-> "none"]

StrVal(s) == [kind |-> "str", str |-> s]

Rep(ch, n) == [i \in 1..n |-> ch]

Max(a, b) == IF a >= b THEN a ELSE b

Min(a, b) == IF a <= b THEN a ELSE b

RECURSIVE SumSeq(_)
SumSeq(s) == IF s = <<>> THEN 0 ELSE Head(s) + SumSeq(Tail(s))

\* the number of decimal digits of a small natural number
Digits(n) == IF n < 10 THEN 1 ELSE IF n < 100 THEN 2 ELSE 3

\* the decimal digits of a small natural number, as text
DigitChar(d) == <<"0", "1", "2", "3", "4", "5", "6", "7", "8", "9">>[d + 1]

RECURSIVE DigitText(_)
DigitText(n) == IF n < 10 THEN <<DigitChar(n)>>
                ELSE DigitText(n \div 10) \o <<DigitChar(n % 10)>>

(***************************************************************************)
(* FileCache (file_cache.py).  The directory is a function from the keys   *)
(* present to their records (the value and the size of the JSON file).     *)
(* The code reads the files' times only to compare them, so the model      *)
(* keeps their order: by_ctime lists the keys by what os.path.getctime     *)
(* reports, oldest first, and by_birth by the instant the file was         *)
(* created.  On POSIX getctime is the time of the last change of the       *)
(* inode, which a write or os.utime moves; on Windows it is the creation   *)
(* time: cache.os says which.  Every call that touches a file happens at   *)
(* a later instant than the ones before it.  Only eviction reads the       *)
(* times and only a cache with a size limit evicts, so a cache without one *)
(* keeps no order.                                                         *)
(***************************************************************************)
OSes == {"posix", "windows"}

\* json.dumps of a str: the quotes, and two characters for an escaped one
JsonCharLen(ch) == IF ch \in {"\n", "\t", "\r", "\"", "\\"} THEN 2 ELSE 1

JsonStrLen(s) == 2 + SumSeq([i \in 1..Len(s) |-> JsonCharLen(s[i])])

\* json.dumps of a list of ints: [0, 1, 2]
JsonListLen(l) ==
    2 + SumSeq([i \in 1..Len(l) |-> Digits(l[i])]) + 2 * Max(Len(l) - 1, 0)

\* json.dumps of the value of a record
JsonValueLen(v) ==
    CASE v.kind = "str"  -> JsonStrLen(v.str)
      [] v.kind = "meta" -> 12 + JsonListLen(v.entries) + 13 + Digits(v.counter) + 1
      [] OTHER           -> 4

\* len(json.dumps({'key': key, 'value': value}).encode('utf-8'))
ContentSize(key, value) == 22 + Len(key) + JsonValueLen(value)

\* size_limit: Optional[int] = None
NoLimit == [given |-> FALSE, bytes |-> 0]

Limit(n) == [given |-> TRUE, bytes |-> n]

NewCache(limit, os) ==
    [files |-> <<>>, by_ctime |-> <<>>, by_birth |-> <<>>,
     current_size |-> 0, size_limit |-> limit, os |-> os]

\* _get_file_path(key).exists(): the sha256 of a key names its file, one file per key
Exists(c, key) == key \in DOMAIN c.files

\* __len__
CacheLen(c) == Cardinality(DOMAIN c.files)

Remove(seq, x) == SelectSeq(seq, LAMBDA y : y # x)

\* the latest of all: moved (or put) to the end of the order
Touch(seq, x) == Append(Remove(seq, x), x)

\* os.remove(file)
Unlink(c, key) ==
    [c EXCEPT !.files = [k \in (DOMAIN c.files) \ {key} |-> c.files[k]],
              !.by_ctime = Remove(c.by_ctime, key),
              !.by_birth = Remove(c.by_birth, key)]

\* min(files other than exclude_path, key=os.path.getctime)
OldestKey(c, exclude) == Head(Remove(c.by_ctime, exclude))

\* _evict_oldest(exclude_path)
EvictOldest(c, exclude) ==
    LET k == OldestKey(c, exclude)
    IN  Unlink([c EXCEPT !.current_size = @ - c.files[k].size], k)

\* while self.current_size + need > self.size_limit and len(self) > 1: evict
RECURSIVE EvictWhile(_, _, _)
EvictWhile(c, need, exclude) ==
    IF c.current_size + need > c.size_limit.bytes /\ CacheLen(c) > 1
    THEN EvictWhile(EvictOldest(c, exclude), need, exclude)
    ELSE c

\* the eviction part of set
SetEvict(c, key, content_size) ==
    IF c.size_limit = NoLimit THEN c
    ELSE IF Exists(c, key)
         THEN LET size_diff == content_size - c.files[key].size
              IN  IF size_diff > 0 THEN EvictWhile(c, size_diff, key) ELSE c
         ELSE EvictWhile(c, content_size, key)

\* a plausible slip in set below: a record larger than the limit is not stored
CacheSetDropsOversize(c, key, value) ==
    LET content_size == ContentSize(key, value)
        c1 == SetEvict(c, key, content_size)
        had == Exists(c1, key)
        c2 == IF had THEN [c1 EXCEPT !.current_size = @ - c1.files[key].size] ELSE c1
        rec == [value |-> value, size |-> content_size]
    IN  IF c.size_limit.given /\ content_size > c.size_limit.bytes THEN c1
        ELSE [c2 EXCEPT !.files = [k \in (DOMAIN c2.files) \cup {key} |->
                                      IF k = key THEN rec ELSE c2.files[k]],
                        !.by_ctime = IF ~c.size_limit.given \/ (had /\ c.os = "windows")
                                     THEN @ ELSE Touch(@, key),
                        !.by_birth = IF ~c.size_limit.given \/ had THEN @
                                     ELSE Append(@, key),
                        !.current_size = @ + content_size]

\* set(key, value)
CacheSet(c, key, value) ==
    LET content_size == ContentSize(key, value)
        c1 == SetEvict(c, key, content_size)
        had == Exists(c1, key)
        c2 == IF had THEN [c1 EXCEPT !.current_size = @ - c1.files[key].size] ELSE c1
        rec == [value |-> value, size |-> content_size]
    IN  [c2 EXCEPT !.files = [k \in (DOMAIN c2.files) \cup {key} |->
                                 IF k = key THEN rec ELSE c2.files[k]],
                   !.by_ctime = IF ~c.size_limit.given \/ (had /\ c.os = "windows")
                                THEN @ ELSE Touch(@, key),
                   !.by_birth = IF ~c.size_limit.given \/ had THEN @ ELSE Append(@, key),
                   !.current_size = @ + content_size]

\* get(key, default): the value returned
CacheGetValue(c, key, default) == IF Exists(c, key) THEN c.files[key].value ELSE default

\* get(key, default): the cache afterwards (os.utime touches the file)
CacheGet(c, key) ==
    IF Exists(c, key) /\ c.os = "posix" /\ c.size_limit.given
    THEN [c EXCEPT !.by_ctime = Touch(@, key)]
    ELSE c

\* a plausible slip in delete below: current_size is left as it was
CacheDeleteKeepsSize(c, key) ==
    IF Exists(c, key) THEN Unlink(c, key) ELSE c

\* delete(key)
CacheDelete(c, key) ==
    IF Exists(c, key)
    THEN Unlink([c EXCEPT !.current_size = @ - c.files[key].size], key)
    ELSE c

\* clear()
CacheClear(c) ==
    [c EXCEPT !.files = <<>>, !.by_ctime = <<>>, !.by_birth = <<>>, !.current_size = 0]

(***************************************************************************)
(* CacheSpec: a FileCache on its own.                                      *)
(***************************************************************************)
CacheKeys == {<<"k", "1">>, <<"k", "2">>, <<"k", "3">>}

\* lengths of the values stored: records of 30, 50 and 110 bytes
ValueLens == {4, 24, 84}

CacheValues == {StrVal(Rep("x", n)) : n \in ValueLens}

SizeLimits == {NoLimit, Limit(100)}

NoPaths == <<>>

NoProcs == <<>>

InitCache ==
    /\ \E limit \in SizeLimits, os \in OSes : cache = NewCache(limit, os)
    /\ fs = NoPaths
    /\ max_history_per_file = 0
    /\ result = [op |-> "init", key |-> <<>>, value |-> None]
    /\ ncalls = 0
    /\ orig = NoPaths
    /\ adds = NoPaths
    /\ pure = NoPaths
    /\ searched = None
    /\ cwd = None
    /\ live = NoPaths
    /\ procs = NoProcs

CacheFrame ==
    UNCHANGED <<fs, max_history_per_file, ncalls, orig, adds, pure, searched, cwd, live, procs>>

DoSet ==
    /\ \E key \in CacheKeys, value \in CacheValues :
          /\ cache' = CacheSet(cache, key, value)
          /\ result' = [op |-> "set", key |-> key, value |-> value]
    /\ CacheFrame

DoGet ==
    /\ \E key \in CacheKeys :
          /\ cache' = CacheGet(cache, key)
          /\ result' = [op |-> "get", key |-> key,
                        value |-> CacheGetValue(cache, key, None)]
    /\ CacheFrame

DoDelete ==
    /\ \E key \in CacheKeys :
          /\ cache' = CacheDelete(cache, key)
          /\ result' = [op |-> "delete", key |-> key, value |-> None]
    /\ CacheFrame

DoClear ==
    /\ cache' = CacheClear(cache)
    /\ result' = [op |-> "clear", key |-> <<>>, value |-> None]
    /\ CacheFrame

NextCache == DoSet \/ DoGet \/ DoDelete \/ DoClear

CacheSpec == InitCache /\ [][NextCache]_vars

\* the bytes of the records stored
RECURSIVE SizeOf(_, _)
SizeOf(files, keys) ==
    IF keys = {} THEN 0
    ELSE LET k == CHOOSE x \in keys : TRUE
         IN  files[k].size + SizeOf(files, keys \ {k})

StoredSize(c) == SizeOf(c.files, DOMAIN c.files)

\* the records a step of set removed, other than by overwriting
Evicted == (DOMAIN cache.files) \ (DOMAIN cache'.files)

\* the records a step of set left in place, the one written apart
Survivors == (DOMAIN cache'.files) \ {result'.key}

BornBefore(c, k, j) ==
    \E i1, i2 \in 1..Len(c.by_birth) :
        c.by_birth[i1] = k /\ c.by_birth[i2] = j /\ i1 <= i2

\* C8 (as claimed): with a size limit configured, after every set either the
\* records stored total at most the limit or the record just written is stored alone.
C8_SizeCapOrAlone ==
    (result.op = "set" /\ cache.size_limit.given) =>
        \/ StoredSize(cache) <= cache.size_limit.bytes
        \/ DOMAIN cache.files = {result.key}

\* C9 (as claimed): whenever set evicts, every record it removes was created
\* before every record it leaves (the one being written apart), whatever get
\* calls came before.
C9_EvictsEarliestCreated ==
    [][result'.op = "set" =>
          \A k \in Evicted : \A j \in Survivors : BornBefore(cache, k, j)]_vars

(***************************************************************************)
(* FileHistoryManager (history.py), on a FileCache without a size limit.   *)
(* An operation is a function of the cache; one that returns something     *)
(* gives a record of the cache afterwards and the value returned.          *)
(***************************************************************************)
MetadataSuffix == <<".", "m", "e", "t", "a", "d", "a", "t", "a">>

\* f'{file_path}.metadata'
MetadataKey(file_path) == file_path \o MetadataSuffix

\* a path up to its first dot
RECURSIVE Stem(_)
Stem(file_path) ==
    IF file_path = <<>> \/ Head(file_path) = "." THEN <<>>
    ELSE <<Head(file_path)>> \o Stem(Tail(file_path))

\* a key made of the path up to its first dot
HistoryKeyOfStem(file_path, counter) ==
    Stem(file_path) \o <<".">> \o DigitText(counter)

\* f'{file_path}.{counter}'
HistoryKey(file_path, counter) == file_path \o <<".">> \o DigitText(counter)

Meta(entries, counter) == [kind |-> "meta", entries |-> entries, counter |-> counter]

\* {'entries': [], 'counter': 0}
EmptyMeta == Meta(<<>>, 0)

\* self.cache.get(metadata_key, {'entries': [], 'counter': 0}), the value
MetadataOf(c, file_path) == CacheGetValue(c, MetadataKey(file_path), EmptyMeta)

\* a plausible slip in the loop below: >= for >
RECURSIVE TrimHistoryOffByOne(_, _, _, _)
TrimHistoryOffByOne(c, file_path, entries, cap) ==
    IF Len(entries) >= cap /\ entries # <<>>
    THEN TrimHistoryOffByOne(CacheDelete(c, HistoryKey(file_path, Head(entries))),
                             file_path, Tail(entries), cap)
    ELSE [cache |-> c, entries |-> entries]

\* while len(metadata['entries']) > self.max_history_per_file: pop(0), delete
RECURSIVE TrimHistory(_, _, _, _)
TrimHistory(c, file_path, entries, cap) ==
    IF Len(entries) > cap
    THEN TrimHistory(CacheDelete(c, HistoryKey(file_path, Head(entries))),
                     file_path, Tail(entries), cap)
    ELSE [cache |-> c, entries |-> entries]

\* add_history(file_path, content)
AddHistory(c, cap, file_path, content) ==
    LET metadata == MetadataOf(c, file_path)
        c1 == CacheGet(c, MetadataKey(file_path))
        counter == metadata.counter
        c2 == CacheSet(c1, HistoryKey(file_path, counter), StrVal(content))
        trimmed == TrimHistory(c2, file_path, Append(metadata.entries, counter), cap)
    IN  CacheSet(trimmed.cache, MetadataKey(file_path),
                 Meta(trimmed.entries, counter + 1))

\* a plausible slip in pop_last_history below: entries.pop(0) for entries.pop()
PopFirstHistory(c, file_path) ==
    LET metadata == MetadataOf(c, file_path)
        c1 == CacheGet(c, MetadataKey(file_path))
        entries == metadata.entries
    IN  IF entries = <<>> THEN [cache |-> c1, ret |-> None]
        ELSE LET first_counter == Head(entries)
                 history_key == HistoryKey(file_path, first_counter)
                 content == CacheGetValue(c1, history_key, None)
                 c2 == CacheGet(c1, history_key)
                 c3 == IF content = None THEN c2 ELSE CacheDelete(c2, history_key)
             IN  [cache |-> CacheSet(c3, MetadataKey(file_path),
                                     Meta(Tail(entries), metadata.counter)),
                  ret |-> content]

\* pop_last_history(file_path)
PopLastHistory(c, file_path) ==
    LET metadata == MetadataOf(c, file_path)
        c1 == CacheGet(c, MetadataKey(file_path))
        entries == metadata.entries
    IN  IF entries = <<>> THEN [cache |-> c1, ret |-> None]
        ELSE LET last_counter == entries[Len(entries)]
                 history_key == HistoryKey(file_path, last_counter)
                 content == CacheGetValue(c1, history_key, None)
                 c2 == CacheGet(c1, history_key)
                 c3 == IF content = None THEN c2 ELSE CacheDelete(c2, history_key)
             IN  [cache |-> CacheSet(c3, MetadataKey(file_path),
                                     Meta(SubSeq(entries, 1, Len(entries) - 1),
                                          metadata.counter)),
                  ret |-> content]

\* for counter in metadata['entries']: self.cache.delete(history_key)
RECURSIVE DeleteEntries(_, _, _)
DeleteEntries(c, file_path, entries) ==
    IF entries = <<>> THEN c
    ELSE DeleteEntries(CacheDelete(c, HistoryKey(file_path, Head(entries))),
                       file_path, Tail(entries))

\* a clear_history that resets the metadata and leaves the snapshots
ClearHistoryKeepsSnapshots(c, file_path) ==
    CacheSet(CacheGet(c, MetadataKey(file_path)), MetadataKey(file_path), EmptyMeta)

\* clear_history(file_path)
ClearHistory(c, file_path) ==
    LET metadata == MetadataOf(c, file_path)
        c1 == CacheGet(c, MetadataKey(file_path))
    IN  CacheSet(DeleteEntries(c1, file_path, metadata.entries),
                 MetadataKey(file_path), EmptyMeta)

\* the loop of get_all_history: the contents found, oldest first
RECURSIVE CollectHistory(_, _, _, _)
CollectHistory(c, file_path, entries, history) ==
    IF entries = <<>> THEN [cache |-> c, ret |-> history]
    ELSE LET history_key == HistoryKey(file_path, Head(entries))
             content == CacheGetValue(c, history_key, None)
         IN  CollectHistory(CacheGet(c, history_key), file_path, Tail(entries),
                            IF content = None THEN history
                            ELSE Append(history, content.str))

\* get_all_history(file_path)
GetAllHistory(c, file_path) ==
    CollectHistory(CacheGet(c, MetadataKey(file_path)), file_path,
                   MetadataOf(c, file_path).entries, <<>>)

(***************************************************************************)
(* HistSpec: a FileHistoryManager on its own, constructed with a           *)
(* max_history_per_file from 0 to MaxCap.                                  *)
(***************************************************************************)
HistPaths == {<<"/", "f">>, <<"/", "g">>}

HistContents == {<<"a">>, <<"b">>}

\* the last n of a sequence
KeepLast(seq, n) == SubSeq(seq, Len(seq) - Min(Len(seq), n) + 1, Len(seq))

InitHist ==
    /\ \E os \in OSes : cache = NewCache(NoLimit, os)
    /\ max_history_per_file \in 0..MaxCap
    /\ fs = NoPaths
    /\ result = [op |-> "init", path |-> <<>>, value |-> None]
    /\ ncalls = 0
    /\ orig = NoPaths
    /\ adds = [p \in HistPaths |-> <<>>]
    /\ pure = [p \in HistPaths |-> TRUE]
    /\ searched = None
    /\ cwd = None
    /\ live = [p \in HistPaths |-> <<>>]
    /\ procs = NoProcs

HistFrame == UNCHANGED <<fs, max_history_per_file, ncalls, orig, searched, cwd, procs>>

DoAddHistory ==
    /\ \E p \in HistPaths, content \in HistContents :
          /\ MetadataOf(cache, p).counter < MaxCounter
          /\ cache' = AddHistory(cache, max_history_per_file, p, content)
          /\ result' = [op |-> "add_history", path |-> p, value |-> None]
          /\ adds' = [adds EXCEPT ![p] = IF pure[p] THEN Append(@, content) ELSE @]
          /\ live' = [live EXCEPT ![p] = KeepLast(Append(@, content),
                                                  max_history_per_file)]
    /\ UNCHANGED pure
    /\ HistFrame

DoPopLastHistory ==
    /\ \E p \in HistPaths :
          LET r == PopLastHistory(cache, p)
          IN  /\ cache' = r.cache
              /\ result' = [op |-> "pop_last_history", path |-> p, value |-> r.ret]
              /\ pure' = [pure EXCEPT ![p] = FALSE]
              /\ adds' = [adds EXCEPT ![p] = <<>>]
              /\ live' = [live EXCEPT ![p] = SubSeq(@, 1, Len(@) - 1)]
    /\ HistFrame

DoClearHistory ==
    /\ \E p \in HistPaths :
          /\ cache' = ClearHistory(cache, p)
          /\ result' = [op |-> "clear_history", path |-> p, value |-> None]
          /\ pure' = [pure EXCEPT ![p] = FALSE]
          /\ adds' = [adds EXCEPT ![p] = <<>>]
          /\ live' = [live EXCEPT ![p] = <<>>]
    /\ HistFrame

DoGetAllHistory ==
    /\ \E p \in HistPaths :
          LET r == GetAllHistory(cache, p)
          IN  /\ cache' = r.cache
              /\ result' = [op |-> "get_all_history", path |-> p, value |-> r.ret]
    /\ UNCHANGED <<adds, pure, live>>
    /\ HistFrame

NextHist == DoAddHistory \/ DoPopLastHistory \/ DoClearHistory \/ DoGetAllHistory

HistSpec == InitHist /\ [][NextHist]_vars

\* the counters of the snapshots of a path that the store holds
StoredCounters(c, file_path) ==
    {n \in 0..MaxCounter : Exists(c, HistoryKey(file_path, n))}

\* C5: the live list of a path never holds more than max_history_per_file
\* entries; and while only add_history was called on the path, after n
\* additions the live list is the last min(n, max_history_per_file) sequence
\* numbers, in order, each stored with the content added under it, and the
\* snapshots of the lower sequence numbers are gone from the store.
C5_HistoryBound ==
    \A p \in HistPaths :
        LET m == MetadataOf(cache, p)
            n == Len(adds[p])
            kept == Min(n, max_history_per_file)
        IN  /\ Len(m.entries) <= max_history_per_file
            /\ pure[p] =>
                  /\ m.counter = n
                  /\ m.entries = [i \in 1..kept |-> n - kept + i - 1]
                  /\ \A i \in 1..kept :
                        CacheGetValue(cache, HistoryKey(p, n - kept + i - 1), None)
                            = StrVal(adds[p][n - kept + i])
                  /\ StoredCounters(cache, p) = {n - kept + i - 1 : i \in 1..kept}

\* more additions than the cap, and no pop: snapshots were evicted
C5_Witness ==
    \E p \in HistPaths :
        /\ pure[p]
        /\ max_history_per_file >= 1
        /\ Len(adds[p]) > max_history_per_file + 1
        /\ Len(MetadataOf(cache, p).entries) = max_history_per_file

(***************************************************************************)
(* Text as the editor reads it.                                            *)
(***************************************************************************)
\* str.expandtabs(): the tab stops are 8 columns apart
TabSize == 8

\* str.expandtabs() from column col on: a tab fills up to the next stop, a
\* line break starts the columns again
RECURSIVE ExpandFrom(_, _)
ExpandFrom(s, col) ==
    IF s = <<>> THEN <<>>
    ELSE LET ch == Head(s)
         IN  IF ch = "\t"
             THEN Rep(" ", TabSize - (col % TabSize)) \o ExpandFrom(Tail(s), 0)
             ELSE IF ch \in {"\n", "\r"}
                  THEN <<ch>> \o ExpandFrom(Tail(s), 0)
                  ELSE <<ch>> \o ExpandFrom(Tail(s), col + 1)

ExpandTabs(s) == ExpandFrom(s, 0)

\* str.count('\n')
CountNewlines(s) == Cardinality({i \in 1..Len(s) : s[i] = "\n"})

\* the lines of an open text file, each with its line break: what iterating
\* over open(path) yields
RECURSIVE KeepLines(_, _)
KeepLines(s, line) ==
    IF s = <<>> THEN (IF line = <<>> THEN <<>> ELSE <<line>>)
    ELSE IF Head(s) = "\n"
         THEN <<Append(line, "\n")>> \o KeepLines(Tail(s), <<>>)
         ELSE KeepLines(Tail(s), Append(line, Head(s)))

FileLines(s) == KeepLines(s, <<>>)

\* str.split('\n')
RECURSIVE SplitFrom(_, _)
SplitFrom(s, line) ==
    IF s = <<>> THEN <<line>>
    ELSE IF Head(s) = "\n"
         THEN <<line>> \o SplitFrom(Tail(s), <<>>)
         ELSE SplitFrom(Tail(s), Append(line, Head(s)))

SplitNewline(s) == SplitFrom(s, <<>>)

\* ''.join(lines)
RECURSIVE Join(_)
Join(lines) == IF lines = <<>> THEN <<>> ELSE Head(lines) \o Join(Tail(lines))

(***************************************************************************)
(* The file system the editor works on, and file_ops.  file_ops.py is not  *)
(* among the sources: read_file_range and replace_in_file follow the       *)
(* specification's LineAccessor and PatchEngine and the messages that      *)
(* editor.py and its tests expect of them.                                 *)
(***************************************************************************)
Absent == [kind |-> "absent", data |-> <<>>]

Directory == [kind |-> "dir", data |-> <<>>]

File(text) == [kind |-> "file", data |-> text]

\* Path.is_absolute()
IsAbsolute(path) == path # <<>> /\ path[1] = "/"

\* Path.exists()
PathExists(f, path) == path \in DOMAIN f /\ f[path].kind # "absent"

\* Path.is_dir()
IsDir(f, path) == path \in DOMAIN f /\ f[path].kind = "dir"

\* read_file_range(path): the whole text of the file
ReadFile(f, path) == f[path].data

\* the places (from 1) where old occurs in doc, scanning from the left and
\* passing over each occurrence found; the empty text occurs at every place
RECURSIVE ScanFrom(_, _, _)
ScanFrom(doc, old, i) ==
    IF i + Len(old) - 1 > Len(doc) THEN <<>>
    ELSE IF SubSeq(doc, i, i + Len(old) - 1) = old
         THEN <<i>> \o ScanFrom(doc, old, i + Max(Len(old), 1))
         ELSE ScanFrom(doc, old, i + 1)

Occurrences(doc, old) == ScanFrom(doc, old, 1)

\* the line (from 1) in which place pos lies
LineOf(doc, pos) == 1 + CountNewlines(SubSeq(doc, 1, pos - 1))

\* the lines where an occurrence starts, each once, in increasing order
RECURSIVE StartLines(_, _, _)
StartLines(doc, places, last) ==
    IF places = <<>> THEN <<>>
    ELSE LET l == LineOf(doc, Head(places))
         IN  IF l = last THEN StartLines(doc, Tail(places), last)
             ELSE <<l>> \o StartLines(doc, Tail(places), l)

\* replace_in_file(path, old_str, new_str) on the tab-expanded text of the file:
\* none when old_str does not occur, the lines (a ValueError) when it occurs
\* more than once, else the new text (written to the file) and the line, from
\* 0, where the replacement starts
ReplaceInFile(text, old_str, new_str) ==
    LET doc == ExpandTabs(text)
        places == Occurrences(doc, old_str)
    IN  IF places = <<>>
        THEN [kind |-> "none", lines |-> <<>>, line |-> 0, text |-> text]
        ELSE IF Len(places) > 1
             THEN [kind |-> "multiple", lines |-> StartLines(doc, places, 0),
                   line |-> 0, text |-> text]
             ELSE [kind |-> "replaced", lines |-> <<>>,
                   line |-> LineOf(doc, places[1]) - 1,
                   text |-> SubSeq(doc, 1, places[1] - 1) \o new_str
                            \o SubSeq(doc, places[1] + Len(old_str), Len(doc))]

(***************************************************************************)
(* OHEditor (editor.py).  A command is a function of the file system and   *)
(* the history's cache; it gives both afterwards and the result: what the  *)
(* call returned (outcome "ok", a CLIResult) or the exception it raised.   *)
(***************************************************************************)
\* FileHistoryManager(max_history_per_file=10)
EditorHistoryCap == 10

\* an int argument, as StrVal is a str argument
IntVal(n) == [kind |-> "int", int |-> n]

Raised(command, path, outcome, error, quoted, lines) ==
    [command |-> command, path |-> path, outcome |-> outcome, error |-> error,
     quoted |-> quoted, lines |-> lines, output |-> None,
     prev_exist |-> FALSE, old_content |-> None, new_content |-> None]

\* CLIResult(path=, prev_exist=, old_content=, new_content=, output=)
Returned(command, path, prev_exist, old_content, new_content) ==
    [command |-> command, path |-> path, outcome |-> "ok", error |-> "",
     quoted |-> <<>>, lines |-> <<>>, output |-> None,
     prev_exist |-> prev_exist, old_content |-> old_content,
     new_content |-> new_content]

Outcome(f, c, r) == [fs |-> f, cache |-> c, result |-> r]

InvalidPath(command, path, error) ==
    Raised(command, path, "EditorToolParameterInvalidError", error, path, <<>>)

MissingParameter(command, path, parameter) ==
    Raised(command, path, "EditorToolParameterMissingError", parameter, <<>>, <<>>)

\* a plausible slip in validate_path below: create is let through on a path
\* that exists
ValidatePathLetsCreate(f, command, path) ==
    IF ~IsAbsolute(path) THEN "not_absolute"
    ELSE IF command # "create" /\ ~PathExists(f, path) THEN "does_not_exist"
    ELSE IF command # "view" /\ IsDir(f, path) THEN "is_directory"
    ELSE ""

\* validate_path(command, path): the error it raises, or "" when it passes
ValidatePath(f, command, path) ==
    IF ~IsAbsolute(path) THEN "not_absolute"
    ELSE IF command = "create" /\ PathExists(f, path) THEN "already_exists"
    ELSE IF command # "create" /\ ~PathExists(f, path) THEN "does_not_exist"
    ELSE IF command # "view" /\ IsDir(f, path) THEN "is_directory"
    ELSE ""

\* Path.write_text(file_text), as write_file calls it: the file is opened for
\* writing, which creates or empties it, and then written.  io is how the
\* operating system answers: "ok", "open_failed" (nothing was touched) or
\* "write_failed" (the file was opened and the write failed).
IOs == {"ok", "open_failed", "write_failed"}

WriteText(f, path, file_text, io) ==
    CASE io = "ok"           -> [f EXCEPT ![path] = File(file_text)]
      [] io = "write_failed" -> [f EXCEPT ![path] = File(<<>>)]
      [] OTHER               -> f

\* the create branch of __call__
Create(f, c, cap, path, file_text, io) ==
    IF file_text = None
    THEN Outcome(f, c, MissingParameter("create", path, "file_text"))
    ELSE IF io # "ok"
         THEN Outcome(WriteText(f, path, file_text.str, io), c,
                      Raised("create", path, "ToolError", "write_failed", path, <<>>))
         ELSE Outcome(WriteText(f, path, file_text.str, io),
                      AddHistory(c, cap, path, file_text.str),
                      Returned("create", path, FALSE, None, file_text))

\* a plausible slip in str_replace below: old_str is searched for and quoted
\* as given, its tabs not expanded
StrReplaceAsGiven(f, c, cap, path, old_str, new_str) ==
    LET old == old_str.str
        new == IF new_str = None THEN <<>> ELSE ExpandTabs(new_str.str)
        r == ReplaceInFile(ReadFile(f, path), old, new)
    IN  CASE r.kind = "none" ->
                Outcome(f, c, Raised("str_replace", path, "ToolError", "not_found",
                                     old, <<>>))
          [] r.kind = "multiple" ->
                Outcome(f, c, Raised("str_replace", path, "ToolError", "multiple",
                                     old, r.lines))
          [] OTHER ->
                LET f1 == [f EXCEPT ![path] = File(r.text)]
                    file_content == ReadFile(f1, path)
                IN  Outcome(f1, AddHistory(c, cap, path, file_content),
                            Returned("str_replace", path, TRUE,
                                     StrVal(file_content),
                                     StrVal(ReadFile(f1, path))))

\* str_replace(path, old_str, new_str, enable_linting)
StrReplace(f, c, cap, path, old_str, new_str) ==
    LET old == ExpandTabs(old_str.str)
        new == IF new_str = None THEN <<>> ELSE ExpandTabs(new_str.str)
        r == ReplaceInFile(ReadFile(f, path), old, new)
    IN  CASE r.kind = "none" ->
                Outcome(f, c, Raised("str_replace", path, "ToolError", "not_found",
                                     old, <<>>))
          [] r.kind = "multiple" ->
                Outcome(f, c, Raised("str_replace", path, "ToolError", "multiple",
                                     old, r.lines))
          [] OTHER ->
                LET f1 == [f EXCEPT ![path] = File(r.text)]
                    file_content == ReadFile(f1, path)
                IN  Outcome(f1, AddHistory(c, cap, path, file_content),
                            Returned("str_replace", path, TRUE,
                                     StrVal(file_content),
                                     StrVal(ReadFile(f1, path))))

\* the str_replace branch of __call__
CallStrReplace(f, c, cap, path, old_str, new_str) ==
    IF old_str = None
    THEN Outcome(f, c, MissingParameter("str_replace", path, "old_str"))
    ELSE IF new_str = old_str
         THEN Outcome(f, c, Raised("str_replace", path,
                                   "EditorToolParameterInvalidError", "same_str",
                                   new_str.str, <<>>))
         ELSE StrReplace(f, c, cap, path, old_str, new_str)

\* the lines insert writes to the temporary file
InsertedText(text, insert_line, new_str) ==
    LET lines == FileLines(text)
        new_str_lines == SplitNewline(ExpandTabs(new_str))
    IN  Join([i \in 1..Min(insert_line, Len(lines)) |-> ExpandTabs(lines[i])])
        \o Join([i \in 1..Len(new_str_lines) |-> Append(new_str_lines[i], "\n")])
        \o Join([i \in 1..(Len(lines) - insert_line) |->
                    ExpandTabs(lines[insert_line + i])])

\* insert(path, insert_line, new_str, enable_linting)
Insert(f, c, cap, path, insert_line, new_str) ==
    LET num_lines == Len(FileLines(ReadFile(f, path)))
    IN  IF insert_line < 0 \/ insert_line > num_lines
        THEN Outcome(f, c, Raised("insert", path, "EditorToolParameterInvalidError",
                                  "insert_line", <<>>, <<insert_line, 0, num_lines>>))
        ELSE LET file_text == ReadFile(f, path)
                 f1 == [f EXCEPT ![path] =
                            File(InsertedText(file_text, insert_line, new_str))]
             IN  Outcome(f1, AddHistory(c, cap, path, file_text),
                         Returned("insert", path, TRUE, StrVal(file_text),
                                  StrVal(ReadFile(f1, path))))

\* the insert branch of __call__
CallInsert(f, c, cap, path, insert_line, new_str) ==
    IF insert_line = None
    THEN Outcome(f, c, MissingParameter("insert", path, "insert_line"))
    ELSE IF new_str = None
         THEN Outcome(f, c, MissingParameter("insert", path, "new_str"))
         ELSE Insert(f, c, cap, path, insert_line.int, new_str.str)

\* undo_edit(path): the file is read, and then
\* self._history_manager.get_last_history is looked up; FileHistoryManager
\* defines pop_last_history and no get_last_history, so the lookup raises
\* AttributeError before anything is popped or written
UndoEdit(f, c, cap, path) ==
    LET current_text == ExpandTabs(ReadFile(f, path))
    IN  Outcome(f, c, Raised("undo_edit", path, "AttributeError",
                             "get_last_history", <<>>, <<>>))

\* a view_range: a list, of ints unless ints is false (as in [1, '2'])
RangeVal(items) == [kind |-> "list", items |-> items, ints |-> TRUE]

NonIntRange == [kind |-> "list", items |-> <<1, 1>>, ints |-> FALSE]

\* bool(view_range): None and the empty list are false
Truthy(view_range) == view_range # None /\ view_range.items # <<>>

\* a line without its line break
StripNewline(line) ==
    IF line # <<>> /\ line[Len(line)] = "\n" THEN SubSeq(line, 1, Len(line) - 1)
    ELSE line

\* read_file_range(path, start_line, end_line): lines start_line..end_line
ReadFileRange(f, path, start_line, end_line) ==
    Join(SubSeq(FileLines(ReadFile(f, path)), start_line, end_line))

\* _make_output(snippet_content, description, start_line): the lines of the
\* content, numbered from start_line on
MakeOutput(snippet_content, start_line) ==
    LET lines == FileLines(snippet_content)
    IN  [kind |-> "cat", start |-> start_line,
         lines |-> [i \in 1..Len(lines) |-> StripNewline(lines[i])]]

\* the listing of a directory, two levels deep: the directories of the
\* model hold nothing, and find prints the directory itself
Listing(f, path) == [kind |-> "ls", start |-> 0, lines |-> <<Append(path, "/")>>]

\* CLIResult(output=, path=, prev_exist=True)
Viewed(path, output) ==
    [Returned("view", path, TRUE, None, None) EXCEPT !.output = output]

InvalidRange(path, error, view_range) ==
    Raised("view", path, "EditorToolParameterInvalidError", error, <<>>,
           view_range.items)

\* a plausible slip in view below: the file viewed is recorded in the history
ViewRecordsHistory(f, c, cap, path, view_range) ==
    IF IsDir(f, path) THEN Outcome(f, c, Viewed(path, Listing(f, path)))
    ELSE Outcome(f, AddHistory(c, cap, path, ReadFile(f, path)),
                 Viewed(path, MakeOutput(ReadFile(f, path), 1)))

\* view(path, view_range)
View(f, c, cap, path, view_range) ==
    IF IsDir(f, path)
    THEN IF Truthy(view_range)
         THEN Outcome(f, c, InvalidRange(path, "not_allowed_for_directory", view_range))
         ELSE Outcome(f, c, Viewed(path, Listing(f, path)))
    ELSE LET num_lines == Len(FileLines(ReadFile(f, path)))
             start_line == view_range.items[1]
             end_line == view_range.items[2]
         IN  IF ~Truthy(view_range)
             THEN Outcome(f, c, Viewed(path, MakeOutput(ReadFile(f, path), 1)))
             ELSE IF Len(view_range.items) # 2 \/ ~view_range.ints
             THEN Outcome(f, c, InvalidRange(path, "two_integers", view_range))
             ELSE IF start_line < 1 \/ start_line > num_lines
             THEN Outcome(f, c, InvalidRange(path, "first_element", view_range))
             ELSE IF end_line > num_lines
             THEN Outcome(f, c, InvalidRange(path, "second_element_large", view_range))
             ELSE IF end_line # -1 /\ end_line < start_line
             THEN Outcome(f, c, InvalidRange(path, "second_element_small", view_range))
             ELSE Outcome(f, c,
                     Viewed(path,
                            MakeOutput(ReadFileRange(f, path, start_line,
                                           IF end_line = -1 THEN num_lines
                                           ELSE end_line),
                                       start_line)))

\* __call__: validate_path, then the branch of the command
Call(f, c, cap, command, path, args, io) ==
    LET invalid == ValidatePath(f, command, path)
    IN  IF invalid # "" THEN Outcome(f, c, InvalidPath(command, path, invalid))
        ELSE CASE command = "create" ->
                     Create(f, c, cap, path, args.file_text, io)
               [] command = "str_replace" ->
                     CallStrReplace(f, c, cap, path, args.old_str, args.new_str)
               [] command = "insert" ->
                     CallInsert(f, c, cap, path, args.insert_line, args.new_str)
               [] command = "undo_edit" ->
                     UndoEdit(f, c, cap, path)
               [] command = "view" ->
                     View(f, c, cap, path, args.view_range)
               [] OTHER ->
                     Outcome(f, c, Raised(command, path, "ToolError", "unrecognized",
                                          <<>>, <<>>))

(***************************************************************************)
(* OHDiffEditor (diff_editor.py): OHEditor and fenced_replace, the edit    *)
(* given as a SEARCH block and a REPLACE block.                            *)
(***************************************************************************)
\* str.isspace() of one character
IsSpace(ch) == ch \in {" ", "\t", "\n", "\r"}

\* str.lstrip()
RECURSIVE LStrip(_)
LStrip(s) == IF s # <<>> /\ IsSpace(Head(s)) THEN LStrip(Tail(s)) ELSE s

\* str.strip() is empty
IsBlank(s) == \A i \in 1..Len(s) : IsSpace(s[i])

\* line[: len(line) - len(line.lstrip())]
LeadingWhitespace(line) == SubSeq(line, 1, Len(line) - Len(LStrip(line)))

\* str.startswith(prefix)
StartsWith(s, prefix) ==
    Len(prefix) <= Len(s) /\ SubSeq(s, 1, Len(prefix)) = prefix

\* str.endswith('\n')
EndsWithNewline(s) == s # <<>> /\ s[Len(s)] = "\n"

\* str.splitlines(keepends=True): a line ends at \n, at \r\n or at \r
RECURSIVE SplitKeepFrom(_, _)
SplitKeepFrom(s, line) ==
    IF s = <<>> THEN (IF line = <<>> THEN <<>> ELSE <<line>>)
    ELSE IF Head(s) = "\r" /\ Len(s) > 1 /\ s[2] = "\n"
         THEN <<line \o <<"\r", "\n">> >> \o SplitKeepFrom(Tail(Tail(s)), <<>>)
         ELSE IF Head(s) \in {"\n", "\r"}
              THEN <<Append(line, Head(s))>> \o SplitKeepFrom(Tail(s), <<>>)
              ELSE SplitKeepFrom(Tail(s), Append(line, Head(s)))

SplitLinesKeepEnds(s) == SplitKeepFrom(s, <<>>)

\* a policy that leaves the SEARCH block out: the result ends with a line
\* break if the replace block or the document did
EnsureNewlineSkipsSearch(res, whole_lines, part_lines, replace_lines) ==
    IF (\/ replace_lines # <<>> /\ EndsWithNewline(replace_lines[Len(replace_lines)])
        \/ whole_lines # <<>> /\ EndsWithNewline(whole_lines[Len(whole_lines)]))
       /\ ~EndsWithNewline(res)
    THEN Append(res, "\n")
    ELSE res

\* the result ends with a line break if the search block, the replace block
\* or the document did
EnsureNewline(res, whole_lines, part_lines, replace_lines) ==
    IF (\/ part_lines # <<>> /\ EndsWithNewline(part_lines[Len(part_lines)])
        \/ replace_lines # <<>> /\ EndsWithNewline(replace_lines[Len(replace_lines)])
        \/ whole_lines # <<>> /\ EndsWithNewline(whole_lines[Len(whole_lines)]))
       /\ ~EndsWithNewline(res)
    THEN Append(res, "\n")
    ELSE res

\* the window (from 0) of whole_lines that starts at i
Window(whole_lines, part_len, i) == SubSeq(whole_lines, i + 1, i + part_len)

\* the last of the windows hits, or -1
LastWindow(hits) ==
    IF hits = {} THEN -1 ELSE CHOOSE i \in hits : \A j \in hits : i >= j

\* the first of the windows hits, as the loop over i finds it, or -1
FirstWindow(hits) ==
    IF hits = {} THEN -1 ELSE CHOOSE i \in hits : \A j \in hits : i <= j

\* an exact replacement that returns the joined lines as they are
FencedExactReplaceAsJoined(whole_lines, part_lines, replace_lines) ==
    LET part_len == Len(part_lines)
        i == FirstWindow({k \in 0..(Len(whole_lines) - part_len) :
                             Window(whole_lines, part_len, k) = part_lines})
    IN  IF part_len = 0 \/ i = -1 THEN None
        ELSE StrVal(Join(SubSeq(whole_lines, 1, i) \o replace_lines
                         \o SubSeq(whole_lines, i + part_len + 1, Len(whole_lines))))

\* _fenced_exact_replace(whole_lines, part_lines, replace_lines)
FencedExactReplace(whole_lines, part_lines, replace_lines) ==
    LET part_len == Len(part_lines)
        i == FirstWindow({k \in 0..(Len(whole_lines) - part_len) :
                             Window(whole_lines, part_len, k) = part_lines})
    IN  IF part_len = 0 \/ i = -1 THEN None
        ELSE StrVal(EnsureNewline(
                 Join(SubSeq(whole_lines, 1, i) \o replace_lines
                      \o SubSeq(whole_lines, i + part_len + 1, Len(whole_lines))),
                 whole_lines, part_lines, replace_lines))

\* a match that takes the offset of one line for the offset of all
FencedMatchAnyOffset(whole_lines, part_lines) ==
    LET num == Len(whole_lines)
        content == {i \in 1..num : ~IsBlank(whole_lines[i])}
        whole_lead(i) == LeadingWhitespace(whole_lines[i])
        part_lead(i) == LeadingWhitespace(part_lines[i])
        leading_diffs ==
            {SubSeq(whole_lead(i), Len(part_lead(i)) + 1, Len(whole_lead(i))) :
                i \in content}
    IN  IF Len(part_lines) # num THEN None
        ELSE IF \E i \in 1..num : LStrip(whole_lines[i]) # LStrip(part_lines[i])
        THEN None
        ELSE IF \E i \in content : ~StartsWith(whole_lead(i), part_lead(i))
        THEN None
        ELSE IF leading_diffs # {}
        THEN StrVal(CHOOSE d \in leading_diffs : TRUE)
        ELSE StrVal(<<>>)

\* _fenced_match_but_for_leading_whitespace(whole_lines, part_lines): the
\* leading whitespace the lines of whole_lines have in common over those of
\* part_lines, or None
FencedMatchButForLeadingWhitespace(whole_lines, part_lines) ==
    LET num == Len(whole_lines)
        content == {i \in 1..num : ~IsBlank(whole_lines[i])}
        whole_lead(i) == LeadingWhitespace(whole_lines[i])
        part_lead(i) == LeadingWhitespace(part_lines[i])
        leading_diffs ==
            {SubSeq(whole_lead(i), Len(part_lead(i)) + 1, Len(whole_lead(i))) :
                i \in content}
    IN  IF Len(part_lines) # num THEN None
        ELSE IF \E i \in 1..num : LStrip(whole_lines[i]) # LStrip(part_lines[i])
        THEN None
        ELSE IF \E i \in content : ~StartsWith(whole_lead(i), part_lead(i))
        THEN None
        ELSE IF Cardinality(leading_diffs) > 1 THEN None
        ELSE IF Cardinality(leading_diffs) = 1
        THEN StrVal(CHOOSE d \in leading_diffs : TRUE)
        ELSE IF \E i \in content : Len(part_lead(i)) > Len(whole_lead(i))
        THEN None
        ELSE StrVal(<<>>)

\* a flexible replacement that puts the common leading whitespace before
\* the lines after the window as well
FencedFlexibleReplaceIndentsRest(whole_lines, part_lines, replace_lines) ==
    LET num_part_lines == Len(part_lines)
        i == FirstWindow({k \in 0..(Len(whole_lines) - num_part_lines) :
                             FencedMatchButForLeadingWhitespace(
                                 Window(whole_lines, num_part_lines, k),
                                 part_lines) # None})
        common_leading_whitespace ==
            FencedMatchButForLeadingWhitespace(
                SubSeq(whole_lines, i + 1, i + num_part_lines), part_lines).str
        rest == replace_lines
                    \o SubSeq(whole_lines, i + num_part_lines + 1, Len(whole_lines))
        adjusted_rest ==
            [k \in 1..Len(rest) |->
                IF IsBlank(rest[k]) THEN rest[k]
                ELSE common_leading_whitespace \o rest[k]]
    IN  IF num_part_lines = 0 \/ i = -1 THEN None
        ELSE StrVal(EnsureNewline(Join(SubSeq(whole_lines, 1, i) \o adjusted_rest),
                                  whole_lines, part_lines, replace_lines))

\* _fenced_whitespace_flexible_replace(whole_lines, part_lines, replace_lines)
FencedWhitespaceFlexibleReplace(whole_lines, part_lines, replace_lines) ==
    LET num_part_lines == Len(part_lines)
        i == FirstWindow({k \in 0..(Len(whole_lines) - num_part_lines) :
                             FencedMatchButForLeadingWhitespace(
                                 Window(whole_lines, num_part_lines, k),
                                 part_lines) # None})
        common_leading_whitespace ==
            FencedMatchButForLeadingWhitespace(
                SubSeq(whole_lines, i + 1, i + num_part_lines), part_lines).str
        adjusted_replace_lines ==
            [k \in 1..Len(replace_lines) |->
                IF IsBlank(replace_lines[k]) THEN replace_lines[k]
                ELSE common_leading_whitespace \o replace_lines[k]]
    IN  IF num_part_lines = 0 \/ i = -1 THEN None
        ELSE StrVal(EnsureNewline(
                 Join(SubSeq(whole_lines, 1, i) \o adjusted_replace_lines
                      \o SubSeq(whole_lines, i + num_part_lines + 1, Len(whole_lines))),
                 whole_lines, part_lines, replace_lines))

\* the lines of a SEARCH or REPLACE block: splitlines(keepends=True), and
\* for a block that is not empty and has no lines, its line breaks
BlockLines(block) ==
    IF block # <<>> /\ SplitLinesKeepEnds(block) = <<>>
    THEN [i \in 1..CountNewlines(block) |-> <<"\n">>]
         \o (IF ~EndsWithNewline(block) THEN << <<>> >> ELSE <<>>)
    ELSE SplitLinesKeepEnds(block)

\* self.validate_file(path): neither OHDiffEditor nor OHEditor defines
\* validate_file, so the attribute lookup raises AttributeError
ValidateFile(f, path) == "AttributeError"

\* fenced_replace from self.read_file(path) on: the append for an empty
\* SEARCH block, else the exact match, else the whitespace-flexible match
FencedApply(f, c, cap, path, search, replace, io) ==
    LET original_content == ReadFile(f, path)
        original_lines == SplitLinesKeepEnds(original_content)
        search_lines == BlockLines(search)
        replace_lines == BlockLines(replace)
        exact == FencedExactReplace(original_lines, search_lines, replace_lines)
        new_content ==
            IF IsBlank(search)
            THEN StrVal((IF original_content # <<>> /\ ~EndsWithNewline(original_content)
                         THEN Append(original_content, "\n")
                         ELSE original_content) \o replace)
            ELSE IF exact # None THEN exact
            ELSE FencedWhitespaceFlexibleReplace(original_lines, search_lines,
                                                 replace_lines)
        c1 == AddHistory(c, cap, path, original_content)
    IN  IF new_content = None
        THEN Outcome(f, c, Raised("fenced_replace", path, "ToolError",
                                  "search_not_found", search, <<>>))
        ELSE IF io # "ok"
        THEN Outcome(WriteText(f, path, new_content.str, io), c1,
                     Raised("fenced_replace", path, "ToolError", "write_failed",
                            path, <<>>))
        ELSE Outcome(WriteText(f, path, new_content.str, io), c1,
                     Returned("fenced_replace", path, TRUE,
                              StrVal(original_content), new_content))

\* fenced_replace(path, search, replace)
FencedReplace(f, c, cap, path, search, replace, io) ==
    LET invalid == ValidatePath(f, "view", path)
    IN  IF invalid # ""
        THEN Outcome(f, c, InvalidPath("fenced_replace", path, invalid))
        ELSE IF ~PathExists(f, path)
        THEN IF IsBlank(search)
             THEN IF io # "ok"
                  THEN Outcome(WriteText(f, path, replace, io), c,
                               Raised("fenced_replace", path, "ToolError",
                                      "write_failed", path, <<>>))
                  ELSE Outcome(WriteText(f, path, replace, io), c,
                               Returned("fenced_replace", path, FALSE, None,
                                        StrVal(replace)))
             ELSE Outcome(f, c, Raised("fenced_replace", path, "ToolError",
                                       "file_not_found", path, <<>>))
        ELSE IF IsDir(f, path)
        THEN Outcome(f, c, Raised("fenced_replace", path, "ToolError",
                                  "path_is_directory", path, <<>>))
        ELSE IF ValidateFile(f, path) # ""
        THEN Outcome(f, c, Raised("fenced_replace", path, ValidateFile(f, path),
                                  "validate_file", <<>>, <<>>))
        ELSE FencedApply(f, c, cap, path, search, replace, io)

(***************************************************************************)
(* Spec: one OHEditor and the commands called on it, one after the other.  *)
(* /f is a file, /g does not exist yet, /d is a directory, and f is a      *)
(* relative path.                                                          *)
(***************************************************************************)
MaxDocLen == 2
MaxInsertLine == 2
MaxViewLine == 2

Texts(chars, n) == UNION {[1..k -> chars] : k \in 0..n}

FsPaths == {<<"/", "f">>, <<"/", "g">>, <<"/", "d">>}
EdPaths == FsPaths \cup {<<"f">>}
InitDocs == Texts({"a", "\n"}, MaxDocLen)
FileTexts == {None, StrVal(<<>>), StrVal(<<"a">>)}
OldStrs == {None} \cup {StrVal(t) : t \in {<<>>, <<"a">>, <<"\n">>, <<"a", "\n">>, <<"\t">>}}
NewStrs == {None, StrVal(<<"a">>), StrVal(<<"b">>)}
InsertLines == {None} \cup {IntVal(n) : n \in -1..MaxInsertLine}
InsertStrs == {None, StrVal(<<"\t", "b">>)}
ViewRanges ==
    {None, RangeVal(<<>>), RangeVal(<<1>>), RangeVal(<<1, 1, 1>>), NonIntRange}
        \cup {RangeVal(<<start_line, end_line>>) :
                 start_line \in 0..MaxViewLine, end_line \in -2..MaxViewLine}
Unset == [kind |-> "unset", data |-> <<>>]
NoArgs == [file_text |-> None, old_str |-> None, new_str |-> None,
           insert_line |-> None, view_range |-> None]

\* an editor just constructed, and the file /f holding one of docs
InitWith(docs) ==
    /\ \E doc \in docs :
          fs = [p \in FsPaths |->
                   CASE p = <<"/", "f">> -> File(doc)
                     [] p = <<"/", "d">> -> Directory
                     [] OTHER -> Absent]
    /\ cache = NewCache(NoLimit, "posix")
    /\ max_history_per_file = EditorHistoryCap
    /\ result = Raised("init", <<>>, "init", "", <<>>, <<>>)
    /\ ncalls = 0
    /\ orig = [p \in FsPaths |-> Unset]
    /\ adds = [p \in FsPaths |-> <<>>]
    /\ pure = [p \in FsPaths |-> TRUE]
    /\ searched = None
    /\ cwd = None
    /\ live = NoPaths
    /\ procs = NoProcs

Init == InitWith(InitDocs)

\* the step that is the call editor(command=, path=, ...): orig keeps, for
\* each path, what was there before the first command that succeeded on it,
\* and searched the old_str of a str_replace whose path was accepted
CallStep(command, path, args, io) ==
    LET r == Call(fs, cache, max_history_per_file, command, path, args, io)
    IN  /\ fs' = r.fs
        /\ cache' = r.cache
        /\ result' = r.result
        /\ ncalls' = ncalls + 1
        /\ orig' = IF r.result.outcome = "ok" /\ orig[path] = Unset
                   THEN [orig EXCEPT ![path] = fs[path]]
                   ELSE orig
        /\ searched' = IF command = "str_replace" /\ ValidatePath(fs, command, path) = ""
                       THEN args.old_str
                       ELSE None
        /\ UNCHANGED <<max_history_per_file, adds, pure, cwd, live, procs>>

DoCreate ==
    /\ ncalls < MaxCmds
    /\ \E path \in EdPaths, file_text \in FileTexts, io \in IOs :
          CallStep("create", path, [NoArgs EXCEPT !.file_text = file_text], io)

DoStrReplace ==
    /\ ncalls < MaxCmds
    /\ \E path \in EdPaths, old_str \in OldStrs, new_str \in NewStrs :
          CallStep("str_replace", path,
                   [NoArgs EXCEPT !.old_str = old_str, !.new_str = new_str], "ok")

DoInsert ==
    /\ ncalls < MaxCmds
    /\ \E path \in EdPaths, insert_line \in InsertLines, new_str \in InsertStrs :
          CallStep("insert", path,
                   [NoArgs EXCEPT !.insert_line = insert_line, !.new_str = new_str],
                   "ok")

DoUndoEdit ==
    /\ ncalls < MaxCmds
    /\ \E path \in EdPaths : CallStep("undo_edit", path, NoArgs, "ok")

DoView ==
    /\ ncalls < MaxCmds
    /\ \E path \in EdPaths, view_range \in ViewRanges :
          CallStep("view", path, [NoArgs EXCEPT !.view_range = view_range], "ok")

Next == DoCreate \/ DoStrReplace \/ DoInsert \/ DoUndoEdit \/ DoView

Spec == Init /\ [][Next]_vars

(***************************************************************************)
(* What the specification says of the editor's commands.                   *)
(***************************************************************************)
\* the live list of a path and the snapshot stored under a sequence number
LiveEntries(c, path) == MetadataOf(c, path).entries

Snapshot(c, path, n) == CacheGetValue(c, HistoryKey(path, n), None)

LastSnapshot(c, path) ==
    LET entries == LiveEntries(c, path)
    IN  IF entries = <<>> THEN None ELSE Snapshot(c, path, entries[Len(entries)])

\* C1: once commands have succeeded on a file, an undo_edit that fails (the
\* undos have run out) leaves the file with the content it had before the
\* first of those commands.
C1_UndoInverse ==
    (/\ result.command = "undo_edit"
     /\ result.outcome # "ok"
     /\ result.path \in FsPaths
     /\ orig[result.path].kind = "file")
        => fs[result.path] = orig[result.path]

\* C2: a str_replace that succeeds pushes, and reports as old_content, the
\* content the file had right before the replacement.
C2_SnapshotBeforeEdit ==
    [][(result'.command = "str_replace" /\ result'.outcome = "ok") =>
          LET before == StrVal(fs[result'.path].data)
          IN  /\ result'.old_content = before
              /\ LastSnapshot(cache', result'.path) = before]_vars

\* C3: undo_edit on a file with a live snapshot succeeds, writes the snapshot
\* pushed last as the file's content and removes it from the history, so
\* that the live list is one shorter and ends with the next-older snapshot.
C3_UndoPopsLast ==
    [][(/\ result'.command = "undo_edit"
        /\ result'.path \in FsPaths
        /\ fs[result'.path].kind = "file"
        /\ LiveEntries(cache, result'.path) # <<>>) =>
          LET path == result'.path
              entries == LiveEntries(cache, path)
              last == entries[Len(entries)]
          IN  /\ result'.outcome = "ok"
              /\ fs'[path] = File(Snapshot(cache, path, last).str)
              /\ LiveEntries(cache', path) = SubSeq(entries, 1, Len(entries) - 1)
              /\ ~Exists(cache', HistoryKey(path, last))]_vars

\* C4: undo_edit on a file with no live snapshot fails with the ToolError
\* that no edit history was found, and changes neither the file nor the
\* history.
C4_NoHistory ==
    [][(/\ result'.command = "undo_edit"
        /\ result'.path \in FsPaths
        /\ fs[result'.path].kind = "file"
        /\ LiveEntries(cache, result'.path) = <<>>) =>
          /\ result'.outcome = "ToolError"
          /\ result'.error = "no_history"
          /\ fs' = fs
          /\ cache' = cache]_vars

\* C6: a command that fails leaves every file and the history as they were.
C6_FailureChangesNothing ==
    [][(ncalls' # ncalls /\ result'.outcome # "ok") =>
          (fs' = fs /\ cache' = cache)]_vars

\* the places where old starts in doc, and the lines they lie in
Starts(doc, old) ==
    {i \in 1..(Len(doc) + 1) :
        i + Len(old) - 1 <= Len(doc) /\ SubSeq(doc, i, i + Len(old) - 1) = old}

StartLineSet(doc, old) == {LineOf(doc, i) : i \in Starts(doc, old)}

\* the step is a str_replace with old_str given, on a file
StrReplaceOnFile ==
    /\ result'.command = "str_replace"
    /\ searched' # None
    /\ fs[result'.path].kind = "file"

C10_CreateBaseline ==
    (result.command = "create" /\ result.outcome = "ok") =>
        /\ fs[result.path] = File(result.new_content.str)
        /\ result.prev_exist = FALSE
        /\ Len(LiveEntries(cache, result.path)) = 1
        /\ LastSnapshot(cache, result.path) = StrVal(<<>>)

\* the errors of validate_path
PathErrors == {"not_absolute", "already_exists", "does_not_exist", "is_directory"}

\* C11: whatever the command, a call is refused with
\* EditorToolParameterInvalidError for the path, and no file and no history
\* is changed, when the path is not absolute, when the command is create and
\* the path exists, when the command is not create and the path does not
\* exist, or when the command is not view and the path is a directory; so
\* create never overwrites a file.
C11_UniformPreconditions ==
    [][ncalls' # ncalls =>
          LET command == result'.command
              path == result'.path
          IN  (\/ ~IsAbsolute(path)
               \/ command = "create" /\ PathExists(fs, path)
               \/ command # "create" /\ ~PathExists(fs, path)
               \/ command # "view" /\ IsDir(fs, path)) =>
                  /\ result'.outcome = "EditorToolParameterInvalidError"
                  /\ result'.error \in PathErrors
                  /\ result'.quoted = path
                  /\ fs' = fs
                  /\ cache' = cache]_vars

\* a create was refused on a path that exists
C11_Witness ==
    /\ result.command = "create"
    /\ result.error = "already_exists"
    /\ PathExists(fs, result.path)

\* the step is view(path, view_range)
ViewStep(path, view_range) ==
    CallStep("view", path, [NoArgs EXCEPT !.view_range = view_range], "ok")

\* C12: a view, whether it succeeds or fails, changes no file and no
\* history, and the same view called again right after it returns the same.
C12_ViewChangesNothing ==
    [][result'.command = "view" =>
          /\ fs' = fs
          /\ cache' = cache
          /\ \A view_range \in ViewRanges :
                ViewStep(result'.path, view_range) =>
                    Call(fs', cache', max_history_per_file', "view", result'.path,
                         [NoArgs EXCEPT !.view_range = view_range], "ok").result
                        = result']_vars

\* a view returned lines of a file
C12_Witness ==
    /\ result.command = "view"
    /\ result.outcome = "ok"
    /\ result.output.kind = "cat"
    /\ result.output.lines # <<>>

\* C13: view of a file of n lines with a view_range refuses, with
\* EditorToolParameterInvalidError naming the bound that fails, every range
\* that is not two integers, that is reversed (end < start, end not -1) or
\* out of bounds (start < 1, start > n, end > n); for every other range it
\* returns the lines start..end numbered from start, -1 standing for n.
C13_ViewRange ==
    [][result'.command = "view" =>
          \A view_range \in ViewRanges \ {None} :
              (/\ result'.path \in FsPaths
               /\ fs[result'.path].kind = "file"
               /\ ViewStep(result'.path, view_range)) =>
                  LET lines == FileLines(fs[result'.path].data)
                      n == Len(lines)
                      start == view_range.items[1]
                      end == view_range.items[2]
                      last == IF end = -1 THEN n ELSE end
                      refused == /\ result'.outcome = "EditorToolParameterInvalidError"
                                 /\ result'.lines = view_range.items
                  IN  IF Len(view_range.items) # 2 \/ ~view_range.ints
                      THEN refused /\ result'.error = "two_integers"
                      ELSE IF start < 1 \/ start > n \/ end > n
                              \/ (end # -1 /\ end < start)
                      THEN /\ refused
                           /\ result'.error = "first_element" => (start < 1 \/ start > n)
                           /\ result'.error = "second_element_large" => end > n
                           /\ result'.error = "second_element_small" => end < start
                           /\ result'.error \in {"first_element", "second_element_large",
                                                 "second_element_small"}
                      ELSE /\ result'.outcome = "ok"
                           /\ result'.output =
                                 [kind |-> "cat", start |-> start,
                                  lines |-> [i \in 1..(last - start + 1) |->
                                                StripNewline(lines[start + i - 1])]]]_vars

\* the step is insert(path, insert_line, new_str)
InsertStep(path, insert_line, new_str) ==
    CallStep("insert", path,
             [NoArgs EXCEPT !.insert_line = insert_line, !.new_str = new_str], "ok")

\* the lines of a text, without their line breaks
LineTexts(text) ==
    LET lines == FileLines(text)
    IN  [i \in 1..Len(lines) |-> StripNewline(lines[i])]

\* C14: insert(path, k, text) on a file of n lines is refused with
\* EditorToolParameterInvalidError if and only if k < 0 or k > n; otherwise
\* the lines of the file afterwards are the lines 1..k as they were, then
\* the lines of the (tab-expanded) text, then the lines k+1..n as they were,
\* n plus the lines of the text in all, and the snapshot pushed is the
\* content before the insert.
C14_InsertSplices ==
    [][result'.command = "insert" =>
          \A insert_line \in InsertLines \ {None}, new_str \in InsertStrs \ {None} :
              (/\ result'.path \in FsPaths
               /\ fs[result'.path].kind = "file"
               /\ InsertStep(result'.path, insert_line, new_str)) =>
                  LET path == result'.path
                      before == fs[path].data
                      lines == LineTexts(before)
                      n == Len(lines)
                      k == insert_line.int
                      new_lines == SplitNewline(ExpandTabs(new_str.str))
                  IN  IF k < 0 \/ k > n
                      THEN result'.outcome = "EditorToolParameterInvalidError"
                      ELSE /\ result'.outcome = "ok"
                           /\ LineTexts(fs'[path].data) =
                                 SubSeq(lines, 1, k) \o new_lines \o SubSeq(lines, k + 1, n)
                           /\ LastSnapshot(cache', path) = StrVal(before)]_vars

(***************************************************************************)
(* DiffSpec: one OHDiffEditor, which has the commands of OHEditor and      *)
(* fenced_replace.  /f may hold indented lines.                            *)
(***************************************************************************)
IndentedDocs == {<<" ", "a", "\n">>, <<" ", "a", "\n", "a", "\n">>}
SearchBlocks == {<<>>, <<" ">>, <<"a">>, <<"a", "\n">>, <<" ", "a", "\n">>, <<"b", "\n">>}
ReplaceBlocks == {<<>>, <<"b">>, <<"b", "\n", "\n", "b", "\n">>}

DiffInit == InitWith(InitDocs \cup IndentedDocs)

\* the step that is the call fenced_replace(path, search, replace)
FencedStep(path, search, replace, io) ==
    LET r == FencedReplace(fs, cache, max_history_per_file, path, search, replace, io)
    IN  /\ fs' = r.fs
        /\ cache' = r.cache
        /\ result' = r.result
        /\ ncalls' = ncalls + 1
        /\ orig' = IF r.result.outcome = "ok" /\ orig[path] = Unset
                   THEN [orig EXCEPT ![path] = fs[path]]
                   ELSE orig
        /\ searched' = None
        /\ UNCHANGED <<max_history_per_file, adds, pure, cwd, live, procs>>

DoFencedReplace ==
    /\ ncalls < MaxCmds
    /\ \E path \in EdPaths, search \in SearchBlocks, replace \in ReplaceBlocks,
          io \in IOs :
          FencedStep(path, search, replace, io)

DiffNext == Next \/ DoFencedReplace

DiffSpec == DiffInit /\ [][DiffNext]_vars

\* the step is fenced_replace(path, search, replace) on a file, the write
\* going through
FencedOnFile(path, search, replace) ==
    /\ path \in FsPaths
    /\ fs[path].kind = "file"
    /\ FencedStep(path, search, replace, "ok")

\* C15: when some window of the document's lines equals the SEARCH block,
\* fenced_replace succeeds and the file is the exact strategy's result, the
\* replacement at the first such window, whatever the whitespace-flexible
\* strategy would have matched.
C15_ExactFirst ==
    [][result'.command = "fenced_replace" =>
          \A search \in SearchBlocks, replace \in ReplaceBlocks :
              (~IsBlank(search) /\ FencedOnFile(result'.path, search, replace)) =>
                  LET exact == FencedExactReplace(
                                   SplitLinesKeepEnds(fs[result'.path].data),
                                   BlockLines(search), BlockLines(replace))
                  IN  exact # None =>
                          /\ result'.outcome = "ok"
                          /\ fs'[result'.path] = File(exact.str)]_vars

\* lines, each that is not blank with d put before it
Indented(lines, d) ==
    [k \in 1..Len(lines) |-> IF IsBlank(lines[k]) THEN lines[k] ELSE d \o lines[k]]

\* the whitespace texts that start a line of lines
Indents(lines) ==
    UNION {{SubSeq(lines[k], 1, n) : n \in 1..Len(lines[k])} : k \in 1..Len(lines)}
        \cap {Rep(" ", n) : n \in 1..TabSize}

\* C16: when no window of the document equals the SEARCH block and the
\* first window that matches it but for leading whitespace is the SEARCH
\* block with one and the same whitespace d before every line that is not
\* blank, fenced_replace succeeds and puts in the window's place the REPLACE
\* block with d before every line of it that is not blank.
C16_FlexibleIndent ==
    [][result'.command = "fenced_replace" =>
          \A search \in SearchBlocks, replace \in ReplaceBlocks :
              (~IsBlank(search) /\ FencedOnFile(result'.path, search, replace)) =>
                  LET whole == SplitLinesKeepEnds(fs[result'.path].data)
                      part == BlockLines(search)
                      repl == BlockLines(replace)
                      n == Len(part)
                  IN  \A i \in 0..(Len(whole) - n), d \in Indents(whole) :
                          (/\ FencedExactReplace(whole, part, repl) = None
                           /\ SubSeq(whole, i + 1, i + n) = Indented(part, d)
                           /\ \A j \in 0..(i - 1) :
                                 FencedMatchButForLeadingWhitespace(
                                     SubSeq(whole, j + 1, j + n), part) = None) =>
                              /\ result'.outcome = "ok"
                              /\ fs'[result'.path] =
                                    File(EnsureNewline(
                                        Join(SubSeq(whole, 1, i) \o Indented(repl, d)
                                             \o SubSeq(whole, i + n + 1, Len(whole))),
                                        whole, part, repl))]_vars

\* C17: fenced_replace with a blank SEARCH block on a path that does not
\* exist creates the file with the REPLACE block as its content and returns
\* with prev_exist false.
C17_CreatesWhenAbsent ==
    [][result'.command = "fenced_replace" =>
          \A search \in SearchBlocks, replace \in ReplaceBlocks :
              (/\ IsBlank(search)
               /\ result'.path \in FsPaths
               /\ ~PathExists(fs, result'.path)
               /\ FencedStep(result'.path, search, replace, "ok")) =>
                  /\ result'.outcome = "ok"
                  /\ result'.prev_exist = FALSE
                  /\ fs'[result'.path] = File(replace)]_vars

(***************************************************************************)
(* GeminiEditor (gemini_editor.py): OHEditor with __call__ overridden to   *)
(* the one command replace.  The ToolErrors of a call are caught and       *)
(* returned as CLIResult(error=); any other exception leaves the call.     *)
(***************************************************************************)
\* CLIResult(error=e.message, path=str(_path))
ErrorResult(path, error, quoted) ==
    Raised("replace", path, "error", error, quoted, <<>>)

\* raw_text_no_translate.replace('\r\n', '\n').replace('\r', '\n')
RECURSIVE NormalizeEol(_)
NormalizeEol(s) ==
    IF s = <<>> THEN <<>>
    ELSE IF Head(s) = "\r" /\ Len(s) > 1 /\ s[2] = "\n"
         THEN <<"\n">> \o NormalizeEol(Tail(Tail(s)))
         ELSE IF Head(s) = "\r" THEN <<"\n">> \o NormalizeEol(Tail(s))
              ELSE <<Head(s)>> \o NormalizeEol(Tail(s))

\* str.replace(old, new), old not empty: every occurrence found from the left
RECURSIVE ReplaceAll(_, _, _)
ReplaceAll(s, old, new) ==
    IF Len(s) < Len(old) THEN s
    ELSE IF SubSeq(s, 1, Len(old)) = old
         THEN new \o ReplaceAll(SubSeq(s, Len(old) + 1, Len(s)), old, new)
         ELSE <<Head(s)>> \o ReplaceAll(Tail(s), old, new)

\* b'\r\n' in raw_bytes
HasCrLf(raw) == \E i \in 1..(Len(raw) - 1) : raw[i] = "\r" /\ raw[i + 1] = "\n"

\* the line endings of the file put back into the text with \n endings
RestoreEol(raw, replaced_normalized) ==
    IF HasCrLf(raw)
    THEN ReplaceAll(replaced_normalized, <<"\n">>, <<"\r", "\n">>)
    ELSE IF (\E i \in 1..Len(raw) : raw[i] = "\r")
            /\ ~(\E i \in 1..Len(raw) : raw[i] = "\n")
         THEN ReplaceAll(replaced_normalized, <<"\n">>, <<"\r">>)
         ELSE replaced_normalized

\* self._encoding_manager.get_encoding(path): no class of the editor sets
\* _encoding_manager, so the attribute lookup raises AttributeError
GetEncoding(f, path) == "AttributeError"

\* _replace from path.read_bytes() on: the count of old in the normalized
\* text against expected, the replacement of every occurrence
ReplaceCounted(f, c, cap, path, old, new, expected, io) ==
    LET raw_text_no_translate == f[path].data
        normalized_text == NormalizeEol(raw_text_no_translate)
        count == Len(Occurrences(normalized_text, old))
        exp == IF expected = None THEN 1 ELSE expected.int
        new_text == RestoreEol(raw_text_no_translate,
                               ReplaceAll(normalized_text, old, new))
        c1 == AddHistory(c, cap, path, raw_text_no_translate)
    IN  IF old = <<>>
        THEN Outcome(f, c, ErrorResult(path, "old_string_empty", old))
        ELSE IF count = 0
        THEN Outcome(f, c, ErrorResult(path, "0_occurrences", <<>>))
        ELSE IF count # exp
        THEN Outcome(f, c, ErrorResult(path, "count_mismatch", <<>>))
        ELSE IF io # "ok"
        THEN Outcome(WriteText(f, path, new_text, io), c1,
                     ErrorResult(path, "write_failed", path))
        ELSE Outcome(WriteText(f, path, new_text, io), c1,
                     Returned("replace", path, TRUE,
                              StrVal(raw_text_no_translate), StrVal(new_text)))

\* _replace(path, old, new, expected)
GeminiReplace(f, c, cap, path, old, new, expected, io) ==
    IF new = old
    THEN Outcome(f, c, ErrorResult(path, "new_equals_old", new))
    ELSE IF ~PathExists(f, path)
    THEN IF old = <<>>
         THEN IF io # "ok"
              THEN Outcome(WriteText(f, path, new, io), c,
                           ErrorResult(path, "write_failed", path))
              ELSE Outcome(WriteText(f, path, new, io),
                           AddHistory(c, cap, path, <<>>),
                           Returned("replace", path, FALSE, StrVal(<<>>),
                                    StrVal(new)))
         ELSE Outcome(f, c, ErrorResult(path, "file_does_not_exist", path))
    ELSE IF GetEncoding(f, path) # ""
    THEN Outcome(f, c, Raised("replace", path, GetEncoding(f, path),
                              "_encoding_manager", <<>>, <<>>))
    ELSE ReplaceCounted(f, c, cap, path, old, new, expected, io)

\* the names between the separators of a path, the empty ones too
RECURSIVE SplitPath(_, _)
SplitPath(path, name) ==
    IF path = <<>> THEN <<name>>
    ELSE IF Head(path) = "/" THEN <<name>> \o SplitPath(Tail(path), <<>>)
         ELSE SplitPath(Tail(path), Append(name, Head(path)))

\* the names with the empty ones and '.' dropped and each '..' taking back
\* the name before it (the root is its own parent)
RECURSIVE CollapseDots(_, _)
CollapseDots(names, kept) ==
    IF names = <<>> THEN kept
    ELSE IF Head(names) \in {<<>>, <<".">>}
         THEN CollapseDots(Tail(names), kept)
         ELSE IF Head(names) = <<".", ".">>
              THEN CollapseDots(Tail(names), SubSeq(kept, 1, Len(kept) - 1))
              ELSE CollapseDots(Tail(names), Append(kept, Head(names)))

\* PurePath.parts of an absolute path, the root left out
PathParts(path) == CollapseDots(SplitPath(path, <<>>), <<>>)

RECURSIVE JoinPath(_)
JoinPath(names) ==
    IF names = <<>> THEN <<>> ELSE <<"/">> \o Head(names) \o JoinPath(Tail(names))

\* str(Path.resolve()) of an absolute path; the file system has no symbolic links
Resolve(path) ==
    IF PathParts(path) = <<>> THEN <<"/">> ELSE JoinPath(PathParts(path))

\* PurePath.is_relative_to(root): the parts of root start the parts of path
IsRelativeTo(path, root) ==
    LET parts == SplitPath(path, <<>>)
        root_parts == IF root = <<"/">> THEN << <<>> >> ELSE SplitPath(root, <<>>)
    IN  Len(root_parts) <= Len(parts)
        /\ SubSeq(parts, 1, Len(root_parts)) = root_parts

\* the workspace check of __call__: the error raised in the try block for a
\* path that is not relative to _cwd is caught by its except Exception, and
\* the prefix test of the handler decides
OutsideWorkspace(root, path) ==
    /\ root # None
    /\ ~IsRelativeTo(Resolve(path), root.str)
    /\ ~StartsWith(Resolve(path), root.str)

\* GeminiEditor.__call__(command=, path=, old_str=, new_str=,
\* expected_replacements=), root being _cwd
GeminiCall(f, c, cap, root, command, path, old_str, new_str, expected_replacements, io) ==
    IF ~IsAbsolute(path)
    THEN Outcome(f, c, ErrorResult(path, "not_absolute", path))
    ELSE IF OutsideWorkspace(root, path)
    THEN Outcome(f, c, ErrorResult(path, "outside_workspace", path))
    ELSE IF command # "replace"
    THEN Outcome(f, c, ErrorResult(path, "unrecognized", <<>>))
    ELSE IF new_str = None
    THEN Outcome(f, c, ErrorResult(path, "new_string", <<>>))
    ELSE IF IsDir(f, path)
    THEN Outcome(f, c, ErrorResult(path, "is_directory", path))
    ELSE GeminiReplace(f, c, cap, path,
                       IF old_str = None THEN <<>> ELSE old_str.str,
                       new_str.str, expected_replacements, io)

(***************************************************************************)
(* GeminiSpec: one GeminiEditor.  /f may have \r\n or \r line endings.     *)
(***************************************************************************)
GeminiDocs ==
    {<<>>, <<"a">>, <<"a", "\n">>, <<"a", "\r", "\n">>, <<"a", "\r">>,
     <<"a", "\n", "a", "\n">>, <<"a", "\r", "\n", "a", "\r", "\n">>,
     <<"a", "\r", "a", "\r">>, <<"b", "\n">>}
GeminiCommands == {"replace", "view"}
GeminiOlds == {None, StrVal(<<>>), StrVal(<<"a">>), StrVal(<<"a", "\n">>)}
GeminiNews == {None, StrVal(<<>>), StrVal(<<"a">>), StrVal(<<"b", "\n">>)}
ExpectedCounts == {None, IntVal(1), IntVal(2)}

GeminiInit == InitWith(GeminiDocs)

\* the step that is the call editor(command=, path=, old_str=, new_str=,
\* expected_replacements=)
GeminiStep(command, path, old_str, new_str, expected_replacements, io) ==
    LET r == GeminiCall(fs, cache, max_history_per_file, cwd, command, path, old_str,
                        new_str, expected_replacements, io)
    IN  /\ fs' = r.fs
        /\ cache' = r.cache
        /\ result' = r.result
        /\ ncalls' = ncalls + 1
        /\ orig' = IF r.result.outcome = "ok" /\ orig[path] = Unset
                   THEN [orig EXCEPT ![path] = fs[path]]
                   ELSE orig
        /\ searched' = None
        /\ UNCHANGED <<max_history_per_file, adds, pure, cwd, live, procs>>

DoReplace ==
    /\ ncalls < MaxCmds
    /\ \E command \in GeminiCommands, path \in EdPaths, old_str \in GeminiOlds,
          new_str \in GeminiNews, expected_replacements \in ExpectedCounts,
          io \in IOs :
          GeminiStep(command, path, old_str, new_str, expected_replacements, io)

GeminiNext == DoReplace

GeminiSpec == GeminiInit /\ [][GeminiNext]_vars

\* the step is replace(path, old, new, expected) on the file at result'.path,
\* old not empty and not new, the write going through
ReplaceOnFile(old, new, expected) ==
    /\ result'.path \in FsPaths
    /\ fs[result'.path].kind = "file"
    /\ old # <<>>
    /\ old # new
    /\ GeminiStep("replace", result'.path, StrVal(old), StrVal(new), expected, "ok")

\* C18: replace on a file, with c the occurrences of old in the text with
\* its line endings normalized and expected defaulting to 1: when c is 0 or
\* is not expected the call returns an error and the file is unchanged,
\* otherwise every occurrence is replaced with new.
C18_CountRule ==
    [][\A o \in GeminiOlds \ {None}, n \in GeminiNews \ {None},
          expected \in ExpectedCounts :
          ReplaceOnFile(o.str, n.str, expected) =>
              LET raw == fs[result'.path].data
                  text == NormalizeEol(raw)
                  count == Len(Occurrences(text, o.str))
                  exp == IF expected = None THEN 1 ELSE expected.int
              IN  IF count = 0 \/ count # exp
                  THEN result'.outcome = "error" /\ fs' = fs
                  ELSE /\ result'.outcome = "ok"
                       /\ fs'[result'.path] =
                             File(RestoreEol(raw, ReplaceAll(text, o.str, n.str)))]_vars

\* the line endings of doc: its places where a \r\n, a lone \r or a lone \n
\* stands, as the set of their styles
EolStyles(doc) ==
    {IF doc[i] = "\r" THEN (IF i < Len(doc) /\ doc[i + 1] = "\n" THEN "crlf" ELSE "cr")
     ELSE IF i > 1 /\ doc[i - 1] = "\r" THEN "crlf" ELSE "lf" :
        i \in {j \in 1..Len(doc) : doc[j] \in {"\r", "\n"}}}

\* C19: replace on a file whose line endings are all of one style, old
\* occurring as many times as expected in the normalized text, succeeds and
\* every line ending of the file afterwards is of that style.
C19_EolKept ==
    [][\A o \in GeminiOlds \ {None}, n \in GeminiNews \ {None},
          expected \in ExpectedCounts :
          ReplaceOnFile(o.str, n.str, expected) =>
              LET raw == fs[result'.path].data
                  count == Len(Occurrences(NormalizeEol(raw), o.str))
                  exp == IF expected = None THEN 1 ELSE expected.int
              IN  (Cardinality(EolStyles(raw)) = 1 /\ count = exp) =>
                      /\ result'.outcome = "ok"
                      /\ EolStyles(fs'[result'.path].data) \subseteq EolStyles(raw)]_vars

\* C20: replace with old = new returns an error; with old empty on a path
\* that does not exist it creates the file with new as content; with old
\* empty on a file it returns an error and the file is unchanged; with old
\* not empty on a path that does not exist it returns the 'does not exist'
\* error and creates nothing.
C20_SpecialCases ==
    [][\A o \in GeminiOlds, n \in GeminiNews \ {None}, expected \in ExpectedCounts :
          LET path == result'.path
              old == IF o = None THEN <<>> ELSE o.str
          IN  (/\ path \in FsPaths
               /\ ~IsDir(fs, path)
               /\ GeminiStep("replace", path, o, n, expected, "ok")) =>
                  IF old = n.str
                  THEN result'.outcome = "error" /\ fs' = fs
                  ELSE IF ~PathExists(fs, path)
                  THEN IF old = <<>>
                       THEN result'.outcome = "ok" /\ fs'[path] = File(n.str)
                       ELSE /\ result'.outcome = "error"
                            /\ result'.error = "file_does_not_exist"
                            /\ fs' = fs
                  ELSE old = <<>> => (result'.outcome = "error" /\ fs' = fs)]_vars

\* C21: every call of the alternate editor that does not succeed returns a
\* result with its error set, no exception leaves the call; and a call that
\* returns an error leaves the files and the history as they were.
C21_FailuresAreReturned ==
    [][result'.command = "replace" =>
          /\ result'.outcome \in {"ok", "error"}
          /\ result'.outcome = "error" => (fs' = fs /\ cache' = cache)]_vars

\* C24: the counter stored for a path never decreases, and add_history
\* gives its snapshot the counter's value and raises the counter, so that no
\* sequence number is given to two snapshots of the path.
C24_CounterNeverReused ==
    [][\A p \in HistPaths :
          /\ MetadataOf(cache', p).counter >= MetadataOf(cache, p).counter
          /\ (result'.op = "add_history" /\ result'.path = p) =>
                 MetadataOf(cache', p).counter > MetadataOf(cache, p).counter]_vars

\* C25: the store of a FileHistoryManager has a size limit, and after every
\* add_history the records stored total at most the limit, or one record
\* is stored alone.
C25_HistorySizeBounded ==
    result.op = "add_history" =>
        /\ cache.size_limit.given
        /\ \/ StoredSize(cache) <= cache.size_limit.bytes
           \/ CacheLen(cache) = 1

\* C28: current_size is the sum of the sizes of the records stored, and
\* it is 0 exactly when no record is stored.
C28_RunningSize ==
    /\ cache.current_size = StoredSize(cache)
    /\ cache.current_size = 0 <=> DOMAIN cache.files = {}

\* a set has just left two records that total more than the limit
C28_Witness ==
    /\ result.op = "set"
    /\ cache.size_limit.given
    /\ CacheLen(cache) = 2
    /\ cache.current_size > cache.size_limit.bytes

\* what a get or a delete may be given as default
CacheDefaults == {None, StrVal(<<"d">>)}

\* after set(k, v): k is stored with v, and delete(k) then makes get(k, d)
\* return d
SetStores ==
    /\ Exists(cache', result'.key)
    /\ CacheGetValue(cache', result'.key, None) = result'.value
    /\ \A d \in CacheDefaults :
          CacheGetValue(CacheDelete(cache', result'.key), result'.key, d) = d

\* C29 (as claimed): after set(k, v), k is stored, get(k) returns v, and
\* delete(k) then makes get(k, d) return d; a set of a key already stored
\* leaves len as it was.
C29_SetKeepsLen ==
    [][result'.op = "set" =>
          /\ SetStores
          /\ Exists(cache, result'.key) => CacheLen(cache') = CacheLen(cache)]_vars

\* C29 (amended): after set(k, v), k is stored, get(k) returns v, and
\* delete(k) then makes get(k, d) return d; a set of a key already stored
\* adds no record: len does not grow, and it is as it was when the cache has
\* no size limit or the new record is not larger than the one it replaces.
C29_SetAddsNoRecord ==
    [][result'.op = "set" =>
          /\ SetStores
          /\ Exists(cache, result'.key) =>
                /\ CacheLen(cache') <= CacheLen(cache)
                /\ (\/ ~cache.size_limit.given
                    \/ ContentSize(result'.key, result'.value)
                          <= cache.files[result'.key].size) =>
                       CacheLen(cache') = CacheLen(cache)]_vars

\* a set has just stored a record larger than the limit, alone
C29_Witness ==
    /\ result.op = "set"
    /\ cache.size_limit.given
    /\ DOMAIN cache.files = {result.key}
    /\ cache.files[result.key].size > cache.size_limit.bytes

\* C30: fenced_replace with a blank SEARCH block on a file succeeds and
\* leaves the file's text followed by the REPLACE block, a line break put
\* between them when the text is not empty and does not end with one; and it
\* adds one snapshot to the path's history, which holds the text.
C30_AppendsToFile ==
    [][result'.command = "fenced_replace" =>
          \A search \in SearchBlocks, replace \in ReplaceBlocks :
              (IsBlank(search) /\ FencedOnFile(result'.path, search, replace)) =>
                  LET original == fs[result'.path].data
                      m == MetadataOf(cache, result'.path)
                      sep == IF original # <<>> /\ ~EndsWithNewline(original)
                             THEN <<"\n">> ELSE <<>>
                  IN  /\ result'.outcome = "ok"
                      /\ fs'[result'.path] = File(original \o sep \o replace)
                      /\ MetadataOf(cache', result'.path).entries
                            = Append(m.entries, m.counter)
                      /\ CacheGetValue(cache', HistoryKey(result'.path, m.counter), None)
                            = StrVal(original)]_vars

\* C26: with live[p] the contents added to p, oldest first, that a stack
\* capped at max_history_per_file holds: get_all_history(p) returns live[p];
\* pop_last_history(p) returns none exactly when live[p] is empty, else its
\* last content, and leaves the rest; and after add_history(p, c) on a list
\* shorter than the cap, pop_last_history(p) would return c and leave the
\* list as it was before the addition.
C26_HistoryOrder ==
    [][LET p == result'.path
       IN  /\ result'.op = "get_all_history" => result'.value = live[p]
           /\ result'.op = "pop_last_history" =>
                 /\ result'.value = None <=> live[p] = <<>>
                 /\ live[p] # <<>> => result'.value = StrVal(live[p][Len(live[p])])
                 /\ GetAllHistory(cache', p).ret = live'[p]
           /\ result'.op = "add_history" =>
                 /\ GetAllHistory(cache', p).ret = live'[p]
                 /\ Len(live[p]) < max_history_per_file =>
                       LET r == PopLastHistory(cache', p)
                       IN  /\ r.ret = StrVal(live'[p][Len(live'[p])])
                           /\ GetAllHistory(r.cache, p).ret = live[p]]_vars

\* a pop has just returned a content and left one on the list
C26_Witness ==
    /\ result.op = "pop_last_history"
    /\ result.value # None
    /\ live[result.path] # <<>>
    /\ result.value.str # live[result.path][1]

(***************************************************************************)
(* WorkspaceSpec: one GeminiEditor whose _cwd is the directory /w.         *)
(***************************************************************************)
WorkspaceRoot == <<"/", "w">>
InsidePath == <<"/", "w", "/", "f">>
SiblingPath == <<"/", "w", "f">>
OutsidePath == <<"/", "f">>
DottedPath == <<"/", "w", "/", ".", ".", "/", "f">>

WsPaths == {WorkspaceRoot, InsidePath, SiblingPath, OutsidePath}
WsCallPaths == WsPaths \cup {DottedPath, <<"f">>}
WsDocs == {<<"a">>}

WorkspaceInit ==
    /\ \E present \in SUBSET (WsPaths \ {WorkspaceRoot}), doc \in WsDocs :
          fs = [p \in WsPaths |->
                   IF p = WorkspaceRoot THEN Directory
                   ELSE IF p \in present THEN File(doc) ELSE Absent]
    /\ cache = NewCache(NoLimit, "posix")
    /\ max_history_per_file = EditorHistoryCap
    /\ result = Raised("init", <<>>, "init", "", <<>>, <<>>)
    /\ ncalls = 0
    /\ orig = [p \in WsPaths |-> Unset]
    /\ adds = NoPaths
    /\ pure = NoPaths
    /\ searched = None
    /\ cwd = StrVal(WorkspaceRoot)
    /\ live = NoPaths
    /\ procs = NoProcs

DoWorkspaceReplace ==
    /\ ncalls < MaxCmds
    /\ \E command \in GeminiCommands, path \in WsCallPaths, old_str \in GeminiOlds,
          new_str \in GeminiNews, io \in IOs :
          GeminiStep(command, path, old_str, new_str, None, io)

WorkspaceNext == DoWorkspaceReplace

WorkspaceSpec == WorkspaceInit /\ [][WorkspaceNext]_vars

\* C22: with a workspace root configured, a call on a path whose resolved
\* path is not inside the root returns the workspace error, and no call
\* creates or changes a file outside the root.
C22_WorkspaceBoundary ==
    [][cwd # None =>
          /\ (/\ result'.command = "replace"
              /\ IsAbsolute(result'.path)
              /\ ~IsRelativeTo(Resolve(result'.path), cwd.str)) =>
                 /\ result'.outcome = "error"
                 /\ result'.error = "outside_workspace"
          /\ \A p \in DOMAIN fs :
                fs'[p] # fs[p] => IsRelativeTo(Resolve(p), cwd.str)]_vars

(***************************************************************************)
(* ShareSpec: two processes, each with a FileHistoryManager on the same    *)
(* history directory, call add_history on one path.  A call is three       *)
(* steps, as the store is a directory of files: the read of the metadata,  *)
(* the write of the snapshot, and the write of the metadata (with the      *)
(* deletions of the trimmed snapshots).  procs[i] keeps what process i     *)
(* read, how many calls it began, and whether a call of it ran while a     *)
(* call of the other was in flight.                                        *)
(***************************************************************************)
Procs == {1, 2}
SharedPath == <<"/", "f">>

\* what process i adds
ContentOf(i) == IF i = 1 THEN <<"a">> ELSE <<"b">>

\* add_history up to the read: metadata = self.cache.get(metadata_key, ...)
AddHistoryRead(c, file_path) ==
    [cache |-> CacheGet(c, MetadataKey(file_path)),
     metadata |-> MetadataOf(c, file_path)]

\* add_history, the snapshot: self.cache.set(history_key, content)
AddHistoryStore(c, file_path, metadata, content) ==
    CacheSet(c, HistoryKey(file_path, metadata.counter), StrVal(content))

\* a plausible slip in the rest of add_history below: the counter is not raised
AddHistoryWriteSameCounter(c, cap, file_path, metadata) ==
    LET trimmed == TrimHistory(c, file_path,
                               Append(metadata.entries, metadata.counter), cap)
    IN  CacheSet(trimmed.cache, MetadataKey(file_path),
                 Meta(trimmed.entries, metadata.counter))

\* add_history, the rest: the entry appended to the metadata read, the
\* counter raised, the list trimmed, self.cache.set(metadata_key, metadata)
AddHistoryWrite(c, cap, file_path, metadata) ==
    LET trimmed == TrimHistory(c, file_path,
                               Append(metadata.entries, metadata.counter), cap)
    IN  CacheSet(trimmed.cache, MetadataKey(file_path),
                 Meta(trimmed.entries, metadata.counter + 1))

InFlight(i) == procs[i].pc # "idle"

ShareInit ==
    /\ cache = NewCache(NoLimit, "posix")
    /\ max_history_per_file \in 1..MaxCap
    /\ procs = [i \in Procs |-> [pc |-> "idle", metadata |-> EmptyMeta,
                                 calls |-> 0, overlapped |-> FALSE]]
    /\ fs = NoPaths
    /\ result = [op |-> "init", path |-> <<>>, value |-> None]
    /\ ncalls = 0
    /\ orig = NoPaths
    /\ adds = NoPaths
    /\ pure = NoPaths
    /\ searched = None
    /\ cwd = None
    /\ live = NoPaths

ShareFrame ==
    UNCHANGED <<fs, max_history_per_file, orig, adds, pure, searched, cwd, live>>

\* process i calls add_history and reads the metadata
BeginAddHistory(i) ==
    /\ ~InFlight(i)
    /\ procs[1].calls + procs[2].calls < MaxAdds
    /\ LET r == AddHistoryRead(cache, SharedPath)
           others == \E j \in Procs \ {i} : InFlight(j)
       IN  /\ cache' = r.cache
           /\ procs' = [j \in Procs |->
                           IF j = i
                           THEN [pc |-> "read", metadata |-> r.metadata,
                                 calls |-> procs[i].calls + 1,
                                 overlapped |-> procs[i].overlapped \/ others]
                           ELSE [procs[j] EXCEPT !.overlapped = @ \/ InFlight(j)]]
    /\ result' = [op |-> "begin", path |-> SharedPath, value |-> None]
    /\ UNCHANGED ncalls
    /\ ShareFrame

\* process i writes its snapshot under the counter it read
StoreSnapshot(i) ==
    /\ procs[i].pc = "read"
    /\ cache' = AddHistoryStore(cache, SharedPath, procs[i].metadata, ContentOf(i))
    /\ procs' = [procs EXCEPT ![i].pc = "stored"]
    /\ result' = [op |-> "store", path |-> SharedPath, value |-> None]
    /\ UNCHANGED ncalls
    /\ ShareFrame

\* process i writes the metadata it read, with its entry, and returns
WriteMetadata(i) ==
    /\ procs[i].pc = "stored"
    /\ cache' = AddHistoryWrite(cache, max_history_per_file, SharedPath,
                                procs[i].metadata)
    /\ procs' = [procs EXCEPT ![i].pc = "idle"]
    /\ result' = [op |-> "add_history", path |-> SharedPath, value |-> None]
    /\ ncalls' = ncalls + 1
    /\ ShareFrame

ShareNext == \E i \in Procs : BeginAddHistory(i) \/ StoreSnapshot(i) \/ WriteMetadata(i)

ShareSpec == ShareInit /\ [][ShareNext]_vars

\* no call is in flight
Quiet == \A i \in Procs : ~InFlight(i)

\* the last calls of the two processes read the same metadata
SameRead ==
    /\ \A i \in Procs : procs[i].calls > 0
    /\ procs[1].metadata = procs[2].metadata

\* how many times n is on the list
TimesListed(entries, n) == Cardinality({k \in 1..Len(entries) : entries[k] = n})

\* C27: when the calls have returned and the last calls of the two
\* processes read the same metadata, both stored their snapshot under the
\* counter read: the metadata lists that number once, its counter is one
\* above it and below the number of additions made, and the store holds one
\* snapshot for the two.  When no call ever ran while another was in
\* flight, the counter is the number of additions made and the list holds
\* the last of them, up to the cap.
C27_LostUpdate ==
    LET m == MetadataOf(cache, SharedPath)
    IN  /\ (Quiet /\ SameRead) =>
               /\ m.counter = procs[1].metadata.counter + 1
               /\ m.counter < ncalls
               /\ TimesListed(m.entries, procs[1].metadata.counter) = 1
               /\ Cardinality(StoredCounters(cache, SharedPath)) < ncalls
        /\ (Quiet /\ \A i \in Procs : ~procs[i].overlapped) =>
               /\ m.counter = ncalls
               /\ m.entries = [k \in 1..Min(ncalls, max_history_per_file) |->
                                  ncalls - Min(ncalls, max_history_per_file) + k - 1]
               /\ StoredCounters(cache, SharedPath) = {m.entries[k] : k \in 1..Len(m.entries)}

\* two additions were made and the metadata lists one
C27_Witness ==
    /\ Quiet
    /\ SameRead
    /\ ncalls = 2
    /\ MetadataOf(cache, SharedPath) = Meta(<<0>>, 1)

(***************************************************************************)
(* WriteSpec: one OHEditor and a reader outside it.  A command that writes *)
(* through write_file is two steps, as Path.write_text is: the open for    *)
(* writing, which leaves the file empty, and the write.  insert writes a   *)
(* temporary file and moves it with shutil.move, which is a rename when    *)
(* the temporary directory is on the file system of the path and a copy    *)
(* (an open for writing, then the write) when it is not.  procs keeps the  *)
(* command in flight and what the reader saw last.                         *)
(***************************************************************************)
NoSight == [path |-> <<>>, state |-> Absent, old |-> Absent, new |-> Absent]

WriteInit ==
    /\ \E doc \in InitDocs :
          fs = [p \in FsPaths |->
                   CASE p = <<"/", "f">> -> File(doc)
                     [] p = <<"/", "d">> -> Directory
                     [] OTHER -> Absent]
    /\ cache = NewCache(NoLimit, "posix")
    /\ max_history_per_file = EditorHistoryCap
    /\ result = Raised("init", <<>>, "init", "", <<>>, <<>>)
    /\ ncalls = 0
    /\ orig = NoPaths
    /\ adds = NoPaths
    /\ pure = NoPaths
    /\ searched = None
    /\ cwd = None
    /\ live = NoPaths
    /\ procs = [pc |-> "idle", path |-> <<>>, old |-> Absent, new |-> Absent,
                cache_after |-> cache, result_after |-> result, seen |-> NoSight]

WriteFrame == UNCHANGED <<max_history_per_file, orig, adds, pure, searched, cwd, live>>

\* the command succeeds on the state; its target is opened for writing
OpenForWriting(command, path, args) ==
    LET r == Call(fs, cache, max_history_per_file, command, path, args, "ok")
    IN  /\ r.result.outcome = "ok"
        /\ fs' = [fs EXCEPT ![path] = File(<<>>)]
        /\ procs' = [procs EXCEPT !.pc = "writing", !.path = path, !.old = fs[path],
                                  !.new = r.fs[path], !.cache_after = r.cache,
                                  !.result_after = r.result]
        /\ UNCHANGED <<cache, result, ncalls>>
        /\ WriteFrame

\* create, up to the open of path.write_text in write_file
BeginWriteFile ==
    /\ procs.pc = "idle"
    /\ ncalls < MaxCmds
    /\ \E path \in FsPaths, file_text \in FileTexts :
          OpenForWriting("create", path, [NoArgs EXCEPT !.file_text = file_text])

\* insert, up to the open of the copy in shutil.move, the temporary file
\* being on another file system
BeginMoveCopy ==
    /\ procs.pc = "idle"
    /\ ncalls < MaxCmds
    /\ \E path \in FsPaths, insert_line \in InsertLines, new_str \in InsertStrs :
          OpenForWriting("insert", path,
                         [NoArgs EXCEPT !.insert_line = insert_line,
                                        !.new_str = new_str])

\* the write, and the rest of the command
FinishWrite ==
    /\ procs.pc = "writing"
    /\ fs' = [fs EXCEPT ![procs.path] = procs.new]
    /\ cache' = procs.cache_after
    /\ result' = procs.result_after
    /\ ncalls' = ncalls + 1
    /\ procs' = [procs EXCEPT !.pc = "idle"]
    /\ WriteFrame

\* insert, the temporary file being on the file system of the path:
\* shutil.move renames it over the path
MoveRename ==
    /\ procs.pc = "idle"
    /\ ncalls < MaxCmds
    /\ \E path \in FsPaths, insert_line \in InsertLines, new_str \in InsertStrs :
          LET r == Call(fs, cache, max_history_per_file, "insert", path,
                        [NoArgs EXCEPT !.insert_line = insert_line,
                                       !.new_str = new_str], "ok")
          IN  /\ r.result.outcome = "ok"
              /\ fs' = r.fs
              /\ cache' = r.cache
              /\ result' = r.result
    /\ ncalls' = ncalls + 1
    /\ UNCHANGED procs
    /\ WriteFrame

\* a process outside the editor reads a path
ExternalRead ==
    /\ \E path \in FsPaths :
          LET writing == procs.pc = "writing" /\ procs.path = path
          IN  procs' = [procs EXCEPT !.seen =
                           [path |-> path, state |-> fs[path],
                            old |-> IF writing THEN procs.old ELSE fs[path],
                            new |-> IF writing THEN procs.new ELSE fs[path]]]
    /\ UNCHANGED <<fs, cache, result, ncalls>>
    /\ WriteFrame

WriteNext == BeginWriteFile \/ BeginMoveCopy \/ FinishWrite \/ MoveRename \/ ExternalRead

WriteSpec == WriteInit /\ [][WriteNext]_vars

\* C23: what a reader outside the editor finds at a path is what was there
\* before the command in flight on it or what the command leaves there, the
\* whole of it.
C23_AtomicWrites == procs.seen.state \in {procs.seen.old, procs.seen.new}

(***************************************************************************)
(* The matching strategies of fenced_replace on their own: the helpers     *)
(* _fenced_exact_replace, _fenced_match_but_for_leading_whitespace and     *)
(* _fenced_whitespace_flexible_replace, and the lines of fenced_replace    *)
(* that split the texts and try the strategies in turn, applied to a       *)
(* document, a SEARCH block and a REPLACE block drawn from bounded sets.   *)
(***************************************************************************)
MaxBlockLen == 3

\* fenced_replace from the split of the texts to the second attempt: the
\* strategy that produced the new content, and the new content
FencedStrategies(original_content, search, replace) ==
    LET original_lines == SplitLinesKeepEnds(original_content)
        search_lines == BlockLines(search)
        replace_lines == BlockLines(replace)
        exact == FencedExactReplace(original_lines, search_lines, replace_lines)
        flexible == FencedWhitespaceFlexibleReplace(original_lines, search_lines,
                                                    replace_lines)
    IN  IF exact # None THEN [strategy |-> "exact", new_content |-> exact]
        ELSE IF flexible # None
        THEN [strategy |-> "flexible", new_content |-> flexible]
        ELSE [strategy |-> "none", new_content |-> None]

FenceChars == {"a", " ", "\n"}
FenceDocs ==
    Texts(FenceChars, MaxBlockLen)
        \cup {<<"a", "\n", "a", "\n">>,
              <<"a", "\n", "a">>,
              <<" ", "a", "\n", " ", "a", "\n">>,
              <<" ", " ", "a", "\n", " ", "a", "\n">>,
              <<"\t", "a", "\n">>,
              <<"a", "\n", " ", "a", "\n">>}
FenceSearches ==
    Texts(FenceChars, MaxBlockLen)
        \cup {<<"a", "\n", "a", "\n">>, <<" ", "a", "\n", "a", "\n">>}
FenceReplaces == {<<>>, <<"b">>, <<"b", "\n">>, <<"a", "\n">>, <<"b", "\n", "\n", "b">>}

\* the texts a strategy is about to be applied to
Given(document, search, replace) ==
    [command |-> "given", document |-> document, search |-> search,
     replace |-> replace, new_content |-> None, strategy |-> "none",
     window |-> <<>>, lead |-> None, first |-> None, edited |-> -1]

FenceInit ==
    /\ \E document \in FenceDocs, search \in FenceSearches, replace \in FenceReplaces :
          result = Given(document, search, replace)
    /\ fs = NoPaths
    /\ cache = NewCache(NoLimit, "posix")
    /\ max_history_per_file = EditorHistoryCap
    /\ ncalls = 0
    /\ orig = NoPaths
    /\ adds = NoPaths
    /\ pure = NoPaths
    /\ searched = None
    /\ cwd = None
    /\ live = NoPaths
    /\ procs = NoProcs

FenceFrame ==
    UNCHANGED <<fs, cache, max_history_per_file, ncalls, orig, adds, pure,
                searched, cwd, live, procs>>

\* the windows (from 0) of whole_lines that equal part_lines, and those that
\* equal them but for leading whitespace
ExactWindows(whole_lines, part_lines) ==
    {k \in 0..(Len(whole_lines) - Len(part_lines)) :
        Window(whole_lines, Len(part_lines), k) = part_lines}

FlexibleWindows(whole_lines, part_lines) ==
    {k \in 0..(Len(whole_lines) - Len(part_lines)) :
        FencedMatchButForLeadingWhitespace(
            Window(whole_lines, Len(part_lines), k), part_lines) # None}

DoFencedExactReplace ==
    /\ result.command = "given"
    /\ result' = [result EXCEPT
          !.command = "_fenced_exact_replace",
          !.new_content = FencedExactReplace(SplitLinesKeepEnds(result.document),
                                             BlockLines(result.search),
                                             BlockLines(result.replace)),
          !.strategy = "exact"]
    /\ FenceFrame

DoFencedWhitespaceFlexibleReplace ==
    /\ result.command = "given"
    /\ result' = [result EXCEPT
          !.command = "_fenced_whitespace_flexible_replace",
          !.new_content = FencedWhitespaceFlexibleReplace(
                              SplitLinesKeepEnds(result.document),
                              BlockLines(result.search),
                              BlockLines(result.replace)),
          !.strategy = "flexible"]
    /\ FenceFrame

\* the helper applied, as the second strategy applies it, to a window of the
\* document that has as many lines as the SEARCH block
DoFencedMatchButForLeadingWhitespace ==
    /\ result.command = "given"
    /\ LET whole_lines == SplitLinesKeepEnds(result.document)
           part_lines == BlockLines(result.search)
       IN  /\ part_lines # <<>>
           /\ \E i \in 0..(Len(whole_lines) - Len(part_lines)) :
                 LET chunk_to_check == Window(whole_lines, Len(part_lines), i)
                 IN  result' = [result EXCEPT
                        !.command = "_fenced_match_but_for_leading_whitespace",
                        !.window = chunk_to_check,
                        !.lead = FencedMatchButForLeadingWhitespace(chunk_to_check,
                                                                    part_lines)]
    /\ FenceFrame

\* the strategies are reached with a SEARCH block that is not blank
DoFencedStrategies ==
    /\ result.command = "given"
    /\ ~IsBlank(result.search)
    /\ LET tried == FencedStrategies(result.document, result.search, result.replace)
       IN  result' = [result EXCEPT
              !.command = "fenced_strategies",
              !.new_content = tried.new_content,
              !.strategy = tried.strategy]
    /\ FenceFrame

\* after an exact match turned the document D into D' with the blocks
\* (S, R): the strategies applied to D' with the blocks (R, S)
DoFencedStrategiesBack ==
    /\ result.command = "fenced_strategies"
    /\ result.strategy = "exact"
    /\ result.first = None
    /\ LET tried == FencedStrategies(result.new_content.str, result.replace,
                                     result.search)
           edited == FirstWindow(ExactWindows(SplitLinesKeepEnds(result.document),
                                              BlockLines(result.search)))
       IN  result' = [result EXCEPT
              !.document = result.new_content.str,
              !.search = result.replace,
              !.replace = result.search,
              !.new_content = tried.new_content,
              !.strategy = tried.strategy,
              !.first = StrVal(result.document),
              !.edited = edited]
    /\ FenceFrame

FenceNext ==
    \/ DoFencedExactReplace
    \/ DoFencedWhitespaceFlexibleReplace
    \/ DoFencedMatchButForLeadingWhitespace
    \/ DoFencedStrategies
    \/ DoFencedStrategiesBack

FenceSpec == FenceInit /\ [][FenceNext]_vars

\* the lowest of the indices hits, when there is one
Lowest(hits) == CHOOSE i \in hits : \A j \in hits : i <= j

\* the last line of lines ended with a newline
LastEndsWithNewline(lines) == lines # <<>> /\ EndsWithNewline(lines[Len(lines)])

\* the lines of the REPLACE block as the strategy puts them into the
\* document: as given for the exact match, each line that is not blank
\* behind the common leading whitespace for the flexible match
PutLines(strategy, whole_lines, part_lines, replace_lines, i) ==
    IF strategy = "exact" THEN replace_lines
    ELSE LET d == FencedMatchButForLeadingWhitespace(
                      Window(whole_lines, Len(part_lines), i), part_lines).str
         IN  [k \in 1..Len(replace_lines) |->
                 IF IsBlank(replace_lines[k]) THEN replace_lines[k]
                 ELSE d \o replace_lines[k]]

\* the document with the window (from 0) at i replaced
Spliced(strategy, whole_lines, part_lines, replace_lines, i) ==
    Join(SubSeq(whole_lines, 1, i)
         \o PutLines(strategy, whole_lines, part_lines, replace_lines, i)
         \o SubSeq(whole_lines, i + Len(part_lines) + 1, Len(whole_lines)))

\* the windows the strategy matches
WindowsOf(strategy, whole_lines, part_lines) ==
    IF strategy = "exact" THEN ExactWindows(whole_lines, part_lines)
    ELSE FlexibleWindows(whole_lines, part_lines)

\* a strategy has been applied, alone or in turn, and has matched
Replaced ==
    /\ result.command \in {"_fenced_exact_replace",
                           "_fenced_whitespace_flexible_replace",
                           "fenced_strategies"}
    /\ result.new_content # None

\* C31: the result of a fenced replacement that succeeded, exact or
\* whitespace-flexible, ends with a newline whenever the last line of the
\* SEARCH block, of the REPLACE block or of the document did; when none of
\* the three did, the result is the document with the window replaced and
\* no newline added.
C31_TrailingNewline ==
    Replaced =>
        LET whole_lines == SplitLinesKeepEnds(result.document)
            part_lines == BlockLines(result.search)
            replace_lines == BlockLines(result.replace)
            i == Lowest(WindowsOf(result.strategy, whole_lines, part_lines))
        IN  IF \/ LastEndsWithNewline(part_lines)
               \/ LastEndsWithNewline(replace_lines)
               \/ LastEndsWithNewline(whole_lines)
            THEN EndsWithNewline(result.new_content.str)
            ELSE result.new_content.str =
                     Spliced(result.strategy, whole_lines, part_lines, replace_lines, i)

\* the strategies, tried in turn, matched and the newline was added: the
\* document with the window replaced did not end with one
C31_Witness ==
    /\ Replaced
    /\ result.command = "fenced_strategies"
    /\ EndsWithNewline(result.new_content.str)
    /\ result.new_content.str #
          Spliced(result.strategy, SplitLinesKeepEnds(result.document),
                  BlockLines(result.search), BlockLines(result.replace),
                  Lowest(WindowsOf(result.strategy,
                                        SplitLinesKeepEnds(result.document),
                                        BlockLines(result.search))))

\* the blocks (S, R) turned D into D' by an exact match, the strategies were
\* then applied to D' with the blocks (R, S), and R, which is not empty,
\* occurs in D' as a run of lines at the edited window and nowhere else
WentBack ==
    /\ result.command = "fenced_strategies"
    /\ result.first # None
    /\ result.search # <<>>
    /\ ExactWindows(SplitLinesKeepEnds(result.document), BlockLines(result.search))
          = {result.edited}

\* C32, as the specification states it: if (S, R) applied to D succeeds by
\* exact match giving D', and R occurs in D' only at the edited position,
\* then (R, S) applied to D' yields D, byte for byte, whether or not S, R
\* and D end with a newline.
C32_RoundTrip ==
    WentBack => result.new_content = result.first

\* C32, amended: under the same conditions (R, S) applied to D' yields D
\* when D ends with a newline or neither S nor R does; when D does not end
\* with a newline and S or R does, it yields D with a newline added.
C32_RoundTripButForNewline ==
    WentBack =>
        LET D == result.first.str
            R == result.search
            S == result.replace
        IN  IF EndsWithNewline(D) \/ (~EndsWithNewline(S) /\ ~EndsWithNewline(R))
            THEN result.new_content = StrVal(D)
            ELSE result.new_content = StrVal(Append(D, "\n"))

\* the way back restored a document of two lines with no newline at its end
C32_Witness ==
    /\ WentBack
    /\ result.new_content = result.first
    /\ Len(SplitLinesKeepEnds(result.first.str)) = 2
    /\ ~EndsWithNewline(result.first.str)

\* a line without its terminator, and the lines of a text without theirs
Chomp(line) ==
    IF Len(line) >= 2 /\ SubSeq(line, Len(line) - 1, Len(line)) = <<"\r", "\n">>
    THEN SubSeq(line, 1, Len(line) - 2)
    ELSE IF line # <<>> /\ line[Len(line)] \in {"\n", "\r"}
    THEN SubSeq(line, 1, Len(line) - 1)
    ELSE line

PlainLines(text) ==
    [k \in 1..Len(SplitLinesKeepEnds(text)) |-> Chomp(SplitLinesKeepEnds(text)[k])]

\* the windows (from 0) of the document whose lines, terminators left out,
\* are those of the SEARCH block
PlainRuns(document, search) ==
    {k \in 0..(Len(PlainLines(document)) - Len(PlainLines(search))) :
        SubSeq(PlainLines(document), k + 1, k + Len(PlainLines(search)))
            = PlainLines(search)}

\* the strategies were applied to a document and a SEARCH block as given
Tried == result.command = "fenced_strategies" /\ result.first = None

\* the document with the window at i replaced by the REPLACE block as it
\* is, and the newline policy applied
ExactResult(document, search, replace, i) ==
    StrVal(EnsureNewline(
        Spliced("exact", SplitLinesKeepEnds(document), BlockLines(search),
                BlockLines(replace), i),
        SplitLinesKeepEnds(document), BlockLines(search), BlockLines(replace)))

\* C33, as the specification states it: if the lines of the SEARCH block,
\* compared without their terminators, occur as a contiguous run of the
\* document's lines, the exact strategy succeeds and the result is the
\* document with the first such run replaced by the REPLACE lines, whether
\* or not the last SEARCH line ends with a newline and wherever the run is.
C33_ExactOnLines ==
    (Tried /\ PlainRuns(result.document, result.search) # {}) =>
        /\ result.strategy = "exact"
        /\ result.new_content =
              ExactResult(result.document, result.search, result.replace,
                          Lowest(PlainRuns(result.document, result.search)))

\* C33, amended: the lines are compared with their terminators.  If the
\* lines of the SEARCH block occur, terminators included, as a contiguous
\* run of the document's lines, the exact strategy succeeds and the result
\* is the document with the first such run replaced by the REPLACE lines
\* (and the newline policy applied), wherever the run is; if they do not,
\* the exact strategy does not succeed, so a SEARCH block whose last line
\* has no newline matches exactly only a run that ends at a last line of
\* the document that has none either.
C33_ExactOnTerminatedLines ==
    Tried =>
        LET hits == ExactWindows(SplitLinesKeepEnds(result.document),
                                 BlockLines(result.search))
        IN  IF hits # {}
            THEN /\ result.strategy = "exact"
                 /\ result.new_content =
                       ExactResult(result.document, result.search, result.replace,
                                   Lowest(hits))
            ELSE result.strategy # "exact"

\* the exact strategy matched the last line of the document and passed over
\* an earlier line that differs from the SEARCH block in its terminator only
C33_Witness ==
    /\ Tried
    /\ result.strategy = "exact"
    /\ ~EndsWithNewline(result.search)
    /\ \E k \in PlainRuns(result.document, result.search) :
          k < Lowest(ExactWindows(SplitLinesKeepEnds(result.document),
                                       BlockLines(result.search)))

\* the helper was applied to a window of the document
Matched == result.command = "_fenced_match_but_for_leading_whitespace"

\* the lines of the window that are not blank
NonBlank(lines) == {i \in 1..Len(lines) : ~IsBlank(lines[i])}

\* the strings that end the leading whitespace of a line of the window
Offsets(lines) ==
    UNION {{SubSeq(LeadingWhitespace(lines[i]), k, Len(LeadingWhitespace(lines[i]))) :
               k \in 1..(Len(LeadingWhitespace(lines[i])) + 1)} :
           i \in 1..Len(lines)} \cup {<<>>}

\* every line of the window that is not blank has the leading whitespace of
\* its SEARCH line followed by d
OffsetBy(whole_lines, part_lines, d) ==
    \A i \in NonBlank(whole_lines) :
        LeadingWhitespace(whole_lines[i]) = LeadingWhitespace(part_lines[i]) \o d

\* C34: the second strategy accepts a window of the document if and only if
\* every line of it equals its SEARCH line once leading whitespace is
\* stripped from both and there is one string d such that every line of the
\* window that is not blank has, as leading whitespace, that of its SEARCH
\* line followed by d; a window in which two lines that are not blank differ
\* in the offset, or in which the leading whitespace of a SEARCH line is not
\* a prefix of that of its line, which is not blank, is rejected.
C34_FlexibleAcceptance ==
    Matched =>
        LET whole_lines == result.window
            part_lines == BlockLines(result.search)
            stripped == \A i \in 1..Len(whole_lines) :
                            LStrip(whole_lines[i]) = LStrip(part_lines[i])
        IN  /\ (result.lead # None) <=>
                  (stripped /\ \E d \in Offsets(whole_lines) :
                                   OffsetBy(whole_lines, part_lines, d))
            /\ (result.lead # None /\ NonBlank(whole_lines) # {}) =>
                  OffsetBy(whole_lines, part_lines, result.lead.str)
            /\ (\E i \in NonBlank(whole_lines) :
                   ~StartsWith(LeadingWhitespace(whole_lines[i]),
                               LeadingWhitespace(part_lines[i]))) =>
                  result.lead = None
            /\ (\E i, j \in NonBlank(whole_lines) :
                   /\ StartsWith(LeadingWhitespace(whole_lines[i]),
                                 LeadingWhitespace(part_lines[i]))
                   /\ StartsWith(LeadingWhitespace(whole_lines[j]),
                                 LeadingWhitespace(part_lines[j]))
                   /\ Len(LeadingWhitespace(whole_lines[i]))
                         - Len(LeadingWhitespace(part_lines[i]))
                      # Len(LeadingWhitespace(whole_lines[j]))
                         - Len(LeadingWhitespace(part_lines[j]))) =>
                  result.lead = None

\* a window of two lines was rejected for its offsets alone: the lines are
\* those of the SEARCH block behind more whitespace, one behind more than
\* the other
C34_Witness ==
    /\ Matched
    /\ result.lead = None
    /\ Len(result.window) = 2
    /\ NonBlank(result.window) = {1, 2}
    /\ \A i \in 1..2 :
          /\ LStrip(result.window[i]) = LStrip(BlockLines(result.search)[i])
          /\ StartsWith(LeadingWhitespace(result.window[i]),
                        LeadingWhitespace(BlockLines(result.search)[i]))

\* C35: when neither the exact nor the whitespace-flexible strategy matches,
\* fenced_replace raises the ToolError that the SEARCH block was not found
\* (the one that may carry the most similar block), writes no file and
\* pushes no snapshot; the search for a similar block, which only that
\* error runs, is not run when a strategy matched.
C35_DiagnosticOnly ==
    [][result'.command = "fenced_replace" =>
          \A search \in SearchBlocks, replace \in ReplaceBlocks :
              (~IsBlank(search) /\ FencedOnFile(result'.path, search, replace)) =>
                  LET tried == FencedStrategies(fs[result'.path].data, search, replace)
                  IN  IF tried.strategy = "none"
                      THEN /\ result'.outcome = "ToolError"
                           /\ result'.error = "search_not_found"
                           /\ fs' = fs
                           /\ cache' = cache
                      ELSE result'.error # "search_not_found"]_vars

\* C36: after any sequence of add_history, pop_last_history and
\* clear_history on any paths, for every path the snapshots the store holds
\* are exactly those of the sequence numbers in the path's live list, the
\* live list is strictly increasing, and every number in it is below the
\* stored counter.
C36_StoreMatchesLiveList ==
    \A p \in HistPaths :
        LET entries == MetadataOf(cache, p).entries
        IN  /\ StoredCounters(cache, p) = {entries[i] : i \in 1..Len(entries)}
            /\ \A i \in 1..(Len(entries) - 1) : entries[i] < entries[i + 1]
            /\ \A i \in 1..Len(entries) : entries[i] < MetadataOf(cache, p).counter

\* a pop has left a path with one live entry, not the one of number 0, while
\* the other path has entries of its own
C36_Witness ==
    /\ result.op = "pop_last_history"
    /\ result.value # None
    /\ Len(MetadataOf(cache, result.path).entries) = 1
    /\ MetadataOf(cache, result.path).entries[1] > 0
    /\ \E q \in HistPaths \ {result.path} : MetadataOf(cache, q).entries # <<>>

(***************************************************************************)
(* One FileHistoryManager and paths of which one is the start of another:  *)
(* /f.1 reads like the key of a snapshot of /f, /f.metadata like the key   *)
(* of its metadata.                                                        *)
(***************************************************************************)
PrefixPaths ==
    {<<"/", "f">>, <<"/", "f", ".", "1">>, <<"/", "f">> \o MetadataSuffix}

PrefixInit ==
    /\ cache = NewCache(NoLimit, "posix")
    /\ max_history_per_file = MaxCap
    /\ fs = NoPaths
    /\ result = [op |-> "init", path |-> <<>>, value |-> None]
    /\ ncalls = 0
    /\ orig = NoPaths
    /\ adds = NoPaths
    /\ pure = NoPaths
    /\ searched = None
    /\ cwd = None
    /\ live = NoPaths
    /\ procs = NoProcs

PrefixFrame ==
    UNCHANGED <<fs, max_history_per_file, ncalls, orig, adds, pure, searched,
                cwd, live, procs>>

AddHistoryOnPrefix ==
    /\ \E p \in PrefixPaths :
          /\ MetadataOf(cache, p).counter < MaxCounter
          /\ cache' = AddHistory(cache, max_history_per_file, p, p)
          /\ result' = [op |-> "add_history", path |-> p, value |-> None]
    /\ PrefixFrame

PopLastHistoryOnPrefix ==
    /\ \E p \in PrefixPaths :
          LET r == PopLastHistory(cache, p)
          IN  /\ cache' = r.cache
              /\ result' = [op |-> "pop_last_history", path |-> p, value |-> r.ret]
    /\ PrefixFrame

ClearHistoryOnPrefix ==
    /\ \E p \in PrefixPaths :
          /\ cache' = ClearHistory(cache, p)
          /\ result' = [op |-> "clear_history", path |-> p, value |-> None]
    /\ PrefixFrame

PrefixNext == AddHistoryOnPrefix \/ PopLastHistoryOnPrefix \/ ClearHistoryOnPrefix

PrefixSpec == PrefixInit /\ [][PrefixNext]_vars

\* the keys a path's history is stored under
KeysOf(file_path) ==
    {MetadataKey(file_path)} \cup {HistoryKey(file_path, n) : n \in 0..MaxCounter}

\* C37: add_history, pop_last_history and clear_history on a path P leave
\* the live list, the counter and every stored snapshot of every other path
\* Q as they were, also when one of the paths is the start of the other
\* (/f and /f.1, /f and /f.metadata); no key of a path is a key of another.
C37_PathsApart ==
    [][/\ \A P \in PrefixPaths : \A Q \in PrefixPaths \ {P} :
             KeysOf(P) \cap KeysOf(Q) = {}
       /\ \A Q \in PrefixPaths \ {result'.path} :
             /\ MetadataOf(cache', Q) = MetadataOf(cache, Q)
             /\ \A n \in 0..MaxCounter :
                   CacheGetValue(cache', HistoryKey(Q, n), None)
                      = CacheGetValue(cache, HistoryKey(Q, n), None)]_vars

\* a snapshot was added for /f.1 while /f holds its snapshot of number 1,
\* whose key reads /f.1, and /f.metadata has a history too
C37_Witness ==
    /\ result.op = "add_history"
    /\ result.path = <<"/", "f", ".", "1">>
    /\ 1 \in StoredCounters(cache, <<"/", "f">>)
    /\ MetadataOf(cache, <<"/", "f">> \o MetadataSuffix).entries # <<>>
    /\ MetadataOf(cache, <<"/", "f", ".", "1">>).counter = 2

(***************************************************************************)
(* The editor on files of tabs and spaces, with str_replace given texts    *)
(* that differ as given and are equal once their tabs are expanded.        *)
(***************************************************************************)
TabDocs == {Rep(" ", TabSize), <<"\t">>, <<"a">>}
TabStrs == {StrVal(<<"\t">>), StrVal(Rep(" ", TabSize))}

TabInit == InitWith(TabDocs)

DoStrReplaceTabs ==
    /\ ncalls < MaxCmds
    /\ \E path \in EdPaths, old_str \in TabStrs, new_str \in TabStrs :
          CallStep("str_replace", path,
                   [NoArgs EXCEPT !.old_str = old_str, !.new_str = new_str], "ok")

TabNext == Next \/ DoStrReplaceTabs

TabSpec == TabInit /\ [][TabNext]_vars

\* the step is str_replace(path, old_str, new_str) with both texts given
StrReplaceWith(path, old_str, new_str) ==
    CallStep("str_replace", path,
             [NoArgs EXCEPT !.old_str = old_str, !.new_str = new_str], "ok")

\* C38: every str_replace that succeeds, and so pushes a snapshot, changes
\* the content of the file; a str_replace whose old_str and new_str are
\* equal once their tabs are expanded, as they are when they are searched
\* for and put in, is refused as one with old_str equal to new_str is, and
\* pushes nothing.
C38_NoNoOp ==
    [][result'.command = "str_replace" =>
          /\ result'.outcome = "ok" => fs'[result'.path] # fs[result'.path]
          /\ \A old_str \in TabStrs, new_str \in TabStrs :
                (/\ StrReplaceWith(result'.path, old_str, new_str)
                 /\ ValidatePath(fs, "str_replace", result'.path) = ""
                 /\ ExpandTabs(old_str.str) = ExpandTabs(new_str.str)) =>
                    /\ result'.outcome = "EditorToolParameterInvalidError"
                    /\ result'.error = "same_str"
                    /\ cache' = cache]_vars

\* the text of the document's lines before the window (from 0) at i, and of
\* those after it
Before(whole_lines, i) == Join(SubSeq(whole_lines, 1, i))

After(whole_lines, part_lines, i) ==
    Join(SubSeq(whole_lines, i + Len(part_lines) + 1, Len(whole_lines)))

\* the REPLACE lines as the strategy puts them, with or without a newline
\* closing them
PutTexts(strategy, whole_lines, part_lines, replace_lines, i) ==
    LET put == Join(PutLines(strategy, whole_lines, part_lines, replace_lines, i))
    IN  {put, Append(put, "\n")}

MixedDocs ==
    {<<"a", "\r", "\n", "b", "\n">>, <<"a", "\r", "b", "\n">>,
     <<"a", "\n", "b", "\r">>, <<"b", "\r", "\n", "a", "\r">>}
EolOlds == {<<"a">>, <<"a", "\n">>}
EolNews == {<<>>, <<"b">>, <<"b", "\n">>}

EolInit == InitWith(GeminiDocs \cup MixedDocs)

\* the step that is _replace(path, old, new, expected) from read_bytes on
ReplaceCountedStep(path, old, new, expected, io) ==
    LET r == ReplaceCounted(fs, cache, max_history_per_file, path, old, new,
                            expected, io)
    IN  /\ fs' = r.fs
        /\ cache' = r.cache
        /\ result' = r.result
        /\ ncalls' = ncalls + 1
        /\ orig' = IF r.result.outcome = "ok" /\ orig[path] = Unset
                   THEN [orig EXCEPT ![path] = fs[path]]
                   ELSE orig
        /\ searched' = None
        /\ UNCHANGED <<max_history_per_file, adds, pure, cwd, live, procs>>

DoReplaceCounted ==
    /\ ncalls < MaxCmds
    /\ \E path \in FsPaths, old \in EolOlds, new \in EolNews,
          expected \in ExpectedCounts, io \in IOs :
          /\ fs[path].kind = "file"
          /\ ReplaceCountedStep(path, old, new, expected, io)

EolNext == DoReplaceCounted

EolSpec == EolInit /\ [][EolNext]_vars

\* the number of characters at the start of raw that old matches, a \n of
\* old standing for any line ending of raw, or -1
RECURSIVE MatchLen(_, _)
MatchLen(raw, old) ==
    IF old = <<>> THEN 0
    ELSE IF raw = <<>> THEN -1
    ELSE LET width == IF Head(raw) = "\r" /\ Len(raw) > 1 /\ raw[2] = "\n"
                      THEN 2 ELSE 1
             here == IF Head(raw) \in {"\r", "\n"} THEN "\n" ELSE Head(raw)
             rest == MatchLen(SubSeq(raw, width + 1, Len(raw)), Tail(old))
         IN  IF here = Head(old) /\ rest # -1 THEN width + rest ELSE -1

\* raw with put in the place of every occurrence of old, found from the
\* left, and every other character, line endings too, as it is
RECURSIVE ReplaceKeeping(_, _, _)
ReplaceKeeping(raw, old, put) ==
    IF raw = <<>> THEN <<>>
    ELSE IF MatchLen(raw, old) > 0
    THEN put \o ReplaceKeeping(SubSeq(raw, MatchLen(raw, old) + 1, Len(raw)), old, put)
    ELSE LET width == IF Head(raw) = "\r" /\ Len(raw) > 1 /\ raw[2] = "\n"
                      THEN 2 ELSE 1
         IN  SubSeq(raw, 1, width)
             \o ReplaceKeeping(SubSeq(raw, width + 1, Len(raw)), old, put)

\* new with its \n as they are or turned into one style of line ending
PutForms(new) ==
    {new, ReplaceAll(new, <<"\n">>, <<"\r", "\n">>), ReplaceAll(new, <<"\n">>, <<"\r">>)}

====
